---- MODULE Spec2Model ----
(***************************************************************************)
(* Backtesting engine of indi-algo-lab (src/src/lib/backtesting/engine.ts).*)
(*                                                                         *)
(* runBacktest walks a price series bar by bar from index 50, keeps one    *)
(* nullable position slot, appends closed trades, an equity point and a    *)
(* drawdown point per bar, and reduces them to a BacktestResult.           *)
(*                                                                         *)
(* Numbers.  Prices, capital, quantities and P&L are integers here (the    *)
(* inputs are drawn from integers, and the code only adds and multiplies   *)
(* them).  Every value the code obtains by a division is an extended       *)
(* rational [n, d] with d >= 0 in lowest terms: d > 0 is the number n/d,   *)
(* 0/0 is NaN, 1/0 is +Infinity and -1/0 is -Infinity, with the IEEE-754   *)
(* rules for them.  Rounding of doubles and the sign of zero are not       *)
(* modelled.  A value the code obtains with Math.sqrt is kept as a surd    *)
(* [sgn, sq], the number sgn * sqrt(sq).                                   *)
(***************************************************************************)
EXTENDS Integers, Sequences, FiniteSets, TLC

\* ------------------------------------------------------------ bounds --

\* Bars simulated at most (bars 50 .. 50 + MaxBars - 1).
MaxBars == 4

\* Longest series, largest value and largest band multiplier handed to an
\* indicator function called on its own.
MaxLen == 4

MaxValue == 3

MaxStdDev == 2

\* First simulated bar index: for (let i = 50; ...).
WarmUp == 50

\* Milliseconds between two bars of the generated series.
BarMs == 60000

\* 1000 * 60 * 60 * 24, the divisor of avgHoldingPeriod.
MsPerDay == 86400000

\* Trading periods per year used by the annualised ratios.
TradingDays == 252

Prices == {1, 2}
InitialCapitals == {0, 10}
PositionSizes == {0, 1, 50}
StopLosses == {50, 100}
TakeProfits == {50, 100}
MaxHoldingPeriods == {0, 2}
ShortLengths == {0, WarmUp}

\* ----------------------------------------------- extended rationals --

Abs(x) == IF x < 0 THEN -x ELSE x

Sgn(x) == IF x < 0 THEN -1 ELSE IF x > 0 THEN 1 ELSE 0

\* Euclid's algorithm on the values of its arguments.
Euclid[a \in Nat, b \in Nat] == IF b = 0 THEN a ELSE Euclid[b, a % b]

GCD(a, b) == Euclid[a, b]

\* The arithmetic below is written as functions, applied to the values of
\* their arguments, each under the operator that names it.
MkOf[n \in Int, d \in Int] ==
    IF d = 0 THEN [n |-> Sgn(n), d |-> 0]
    ELSE LET s == IF d < 0 THEN -1 ELSE 1
             g == GCD(Abs(n), Abs(d))
         IN  [n |-> (s * n) \div g, d |-> (s * d) \div g]

Mk(n, d) == MkOf[n, d]

FromInt(x) == [n |-> x, d |-> 1]

Zero == FromInt(0)

NaN == [n |-> 0, d |-> 0]

PosInf == [n |-> 1, d |-> 0]

NegInf == [n |-> -1, d |-> 0]

\* The extended rationals.
Rat == [n : Int, d : Nat]

IsNaN(x) == x = NaN

IsFinite(x) == x.d > 0

FNegOf[x \in Rat] == [n |-> -x.n, d |-> x.d]

FNeg(x) == FNegOf[x]

FAddOf[x \in Rat, y \in Rat] ==
    IF IsNaN(x) \/ IsNaN(y) THEN NaN
    ELSE IF x.d = 0 /\ y.d = 0 THEN (IF x.n = y.n THEN x ELSE NaN)
    ELSE IF x.d = 0 THEN x
    ELSE IF y.d = 0 THEN y
    ELSE LET g == GCD(x.d, y.d)
         IN  Mk(x.n * (y.d \div g) + y.n * (x.d \div g), (x.d \div g) * y.d)

FAdd(x, y) == FAddOf[x, y]

FSub(x, y) == FAdd(x, FNeg(y))

\* Common factors are cancelled crosswise before the products are formed.
FMulOf[x \in Rat, y \in Rat] ==
    IF x.d = 0 \/ y.d = 0 THEN Mk(x.n * y.n, 0)
    ELSE LET g1 == GCD(Abs(x.n), y.d)
             g2 == GCD(Abs(y.n), x.d)
         IN  Mk((x.n \div g1) * (y.n \div g2), (x.d \div g2) * (y.d \div g1))

FMul(x, y) == FMulOf[x, y]

FRecipOf[y \in Rat] ==
    IF y.n = 0 THEN (IF y.d = 0 THEN NaN ELSE PosInf)
    ELSE IF y.n > 0 THEN Mk(y.d, y.n)
    ELSE Mk(-y.d, -y.n)

FRecip(y) == FRecipOf[y]

FDiv(x, y) == FMul(x, FRecip(y))

\* Comparisons are false as soon as one side is NaN.
FLtOf[x \in Rat, y \in Rat] == ~IsNaN(x) /\ ~IsNaN(y) /\ FSub(y, x).n > 0

FLt(x, y) == FLtOf[x, y]

FGt(x, y) == FLt(y, x)

FLeOf[x \in Rat, y \in Rat] == ~IsNaN(x) /\ ~IsNaN(y) /\ (x = y \/ FLt(x, y))

FLe(x, y) == FLeOf[x, y]

FGe(x, y) == FLe(y, x)

RECURSIVE SumSeq(_)
SumSeq(s) == IF s = <<>> THEN 0 ELSE Head(s) + SumSeq(Tail(s))

\* The sum of s[lo .. hi], halving the range.
RECURSIVE FSumRange(_, _, _)
FSumRange(s, lo, hi) ==
    IF lo > hi THEN Zero
    ELSE IF lo = hi THEN s[lo]
    ELSE LET mid == (lo + hi) \div 2
         IN  FAdd(FSumRange(s, lo, mid), FSumRange(s, mid + 1, hi))

FSumSeq(s) == FSumRange(s, 1, Len(s))

\* Math.max(...xs): -Infinity for no argument, NaN as soon as one is NaN.
RECURSIVE FMaxSeq(_)
FMaxSeq(s) ==
    IF s = <<>> THEN NegInf
    ELSE LET m == FMaxSeq(Tail(s))
         IN  IF IsNaN(Head(s)) \/ IsNaN(m) THEN NaN
             ELSE IF FGt(Head(s), m) THEN Head(s) ELSE m

RECURSIVE MaxSeq(_)
MaxSeq(s) ==
    IF Len(s) = 1 THEN s[1]
    ELSE LET m == MaxSeq(Tail(s)) IN IF Head(s) > m THEN Head(s) ELSE m

RECURSIVE MinSeq(_)
MinSeq(s) ==
    IF Len(s) = 1 THEN s[1]
    ELSE LET m == MinSeq(Tail(s)) IN IF Head(s) < m THEN Head(s) ELSE m

\* (a / sqrt(v)) * sqrt(k) as the surd sgn * sqrt(a^2 * k / v).
Surd(a, v, k) ==
    [sgn |-> Sgn(a.n), sq |-> FDiv(FMul(FMul(a, a), FromInt(k)), v)]

SurdZero == [sgn |-> 0, sq |-> Zero]

SurdIsNaN(s) == IsNaN(s.sq)

SurdIsFinite(s) == IsFinite(s.sq)

\* ------------------------------------------------ indicator library --
\* A series is a sequence of extended rationals; index i of the code is
\* position i + 1 here.

\* data.slice(from, to) for 0 <= from <= to <= data.length.
Slice(data, from, to) == [k \in 1 .. (to - from) |-> data[from + k]]

Square(x) == FMul(x, x)

\* calculateSMA(data, period)
CalculateSMAOffByOne(data, period) ==
    [k \in 1 .. Len(data) |->
        IF k - 1 < period
        THEN NaN
        ELSE FDiv(FSumSeq(Slice(data, k - period, k)), FromInt(period))]

CalculateSMA(data, period) ==
    [k \in 1 .. Len(data) |->
        IF k - 1 < period - 1
        THEN NaN
        ELSE FDiv(FSumSeq(Slice(data, k - period, k)), FromInt(period))]

\* The result array of calculateEMA after the iterations of positions
\* from .. to, given the array before them.  The range is halved and its
\* first half pushed before its second.
RECURSIVE EMAPushes(_, _, _, _, _)
EMAPushes(data, period, result, from, to) ==
    IF from > to THEN result
    ELSE IF from = to
    THEN LET idx == from - 1
             multiplier == FDiv(FromInt(2), FromInt(period + 1))
         IN  IF idx = 0 THEN Append(result, data[1])
             ELSE IF idx < period - 1 THEN Append(result, NaN)
             ELSE IF idx = period - 1
             THEN Append(result, FDiv(FSumSeq(Slice(data, 0, period)),
                                      FromInt(period)))
             ELSE Append(result,
                         FAdd(FMul(FSub(data[from], result[from - 1]), multiplier),
                              result[from - 1]))
    ELSE LET mid == (from + to) \div 2
             left == EMAPushes(data, period, result, from, mid)
         IN  IF Len(left) >= 0
             THEN EMAPushes(data, period, left, mid + 1, to)
             ELSE left

\* calculateEMA(data, period)
CalculateEMAAsSMA(data, period) == CalculateSMA(data, period)

CalculateEMA(data, period) == EMAPushes(data, period, <<>>, 1, Len(data))

\* calculateRSI(data, period)
CalculateRSIUnguarded(data, period) ==
    LET changes == [k \in 1 .. (Len(data) - 1) |-> FSub(data[k + 1], data[k])]
    IN  [k \in 1 .. Len(data) |->
            IF k - 1 < period THEN NaN
            ELSE LET relevantChanges == Slice(changes, k - 1 - period, k - 1)
                     gains == SelectSeq(relevantChanges, LAMBDA c : FGt(c, Zero))
                     losses == SelectSeq(relevantChanges, LAMBDA c : FLt(c, Zero))
                     avgGain == FDiv(FSumSeq(gains), FromInt(period))
                     avgLoss == FDiv(FNeg(FSumSeq(losses)), FromInt(period))
                     rs == FDiv(avgGain, avgLoss)
                 IN  FSub(FromInt(100), FDiv(FromInt(100), FAdd(FromInt(1), rs)))]

CalculateRSI(data, period) ==
    LET changes == [k \in 1 .. (Len(data) - 1) |-> FSub(data[k + 1], data[k])]
    IN  [k \in 1 .. Len(data) |->
            IF k - 1 < period THEN NaN
            ELSE LET relevantChanges == Slice(changes, k - 1 - period, k - 1)
                     gains == SelectSeq(relevantChanges, LAMBDA c : FGt(c, Zero))
                     losses == SelectSeq(relevantChanges, LAMBDA c : FLt(c, Zero))
                     avgGain == IF Len(gains) > 0
                                THEN FDiv(FSumSeq(gains), FromInt(period)) ELSE Zero
                     avgLoss == IF Len(losses) > 0
                                THEN FDiv(FNeg(FSumSeq(losses)), FromInt(period))
                                ELSE Zero
                 IN  IF avgLoss = Zero THEN FromInt(100)
                     ELSE LET rs == FDiv(avgGain, avgLoss)
                          IN  FSub(FromInt(100),
                                   FDiv(FromInt(100), FAdd(FromInt(1), rs)))]

\* calculateMACD(data)
CalculateMACDSignalOfDefined(data) ==
    LET ema12 == CalculateEMA(data, 12)
        ema26 == CalculateEMA(data, 26)
        macd == [k \in 1 .. Len(data) |-> FSub(ema12[k], ema26[k])]
    IN  [macd |-> macd, signal |-> [k \in 1 .. Len(data) |-> ema12[1]],
         histogram |-> [k \in 1 .. Len(data) |-> FSub(macd[k], ema12[1])]]

CalculateMACD(data) ==
    LET ema12 == CalculateEMA(data, 12)
        ema26 == CalculateEMA(data, 26)
        macd == [k \in 1 .. Len(data) |-> FSub(ema12[k], ema26[k])]
        signal == CalculateEMA(macd, 9)
    IN  [macd |-> macd, signal |-> signal,
         histogram |-> [k \in 1 .. Len(data) |-> FSub(macd[k], signal[k])]]

\* stdDev * Math.sqrt(variance) as the surd sgn * sqrt(stdDev^2 * variance).
ScaledRoot(stdDev, variance) ==
    [sgn |-> IF FGt(variance, Zero) THEN Sgn(stdDev) ELSE 0,
     sq |-> FMul(FromInt(stdDev * stdDev), variance)]

SurdNeg(s) == [sgn |-> -s.sgn, sq |-> s.sq]

\* A band value mid + off, off a surd; NaN is a NaN mid.
BandNaN == [mid |-> NaN, off |-> SurdZero]

\* calculateBollingerBands(data, period, stdDev)
CalculateBollingerBandsSwapped(data, period, stdDev) ==
    LET middle == CalculateSMA(data, period)
        band(k) == LET slice == Slice(data, k - period, k)
                       variance ==
                           FDiv(FSumSeq([j \in 1 .. period |->
                                           Square(FSub(slice[j], middle[k]))]),
                                FromInt(period))
                   IN  ScaledRoot(stdDev, variance)
    IN  [upper |-> [k \in 1 .. Len(data) |->
                      IF k - 1 < period - 1 THEN BandNaN
                      ELSE [mid |-> middle[k], off |-> SurdNeg(band(k))]],
         middle |-> middle,
         lower |-> [k \in 1 .. Len(data) |->
                      IF k - 1 < period - 1 THEN BandNaN
                      ELSE [mid |-> middle[k], off |-> band(k)]]]

CalculateBollingerBands(data, period, stdDev) ==
    LET middle == CalculateSMA(data, period)
        band(k) == LET slice == Slice(data, k - period, k)
                       variance ==
                           FDiv(FSumSeq([j \in 1 .. period |->
                                           Square(FSub(slice[j], middle[k]))]),
                                FromInt(period))
                   IN  ScaledRoot(stdDev, variance)
    IN  [upper |-> [k \in 1 .. Len(data) |->
                      IF k - 1 < period - 1 THEN BandNaN
                      ELSE [mid |-> middle[k], off |-> band(k)]],
         middle |-> middle,
         lower |-> [k \in 1 .. Len(data) |->
                      IF k - 1 < period - 1 THEN BandNaN
                      ELSE [mid |-> middle[k], off |-> SurdNeg(band(k))]]]

FAbs(x) == [n |-> Abs(x.n), d |-> x.d]

FMax2(x, y) == IF IsNaN(x) \/ IsNaN(y) THEN NaN ELSE IF FGt(y, x) THEN y ELSE x

\* calculateATR(data, period) on the bars' highs, lows and closes.
CalculateATR(highs, lows, closes, period) ==
    LET tr == [k \in 1 .. Len(closes) |->
                 IF k = 1 THEN FSub(highs[k], lows[k])
                 ELSE FMax2(FMax2(FSub(highs[k], lows[k]),
                                  FAbs(FSub(highs[k], closes[k - 1]))),
                            FAbs(FSub(lows[k], closes[k - 1])))]
    IN  CalculateEMA(tr, period)

\* The obv array after the iterations of positions from .. to, given the
\* array before them.
RECURSIVE OBVPushes(_, _, _, _, _)
OBVPushes(closes, volumes, obv, from, to) ==
    IF from > to THEN obv
    ELSE IF from = to
    THEN IF FGt(closes[from], closes[from - 1])
         THEN Append(obv, FAdd(obv[from - 1], volumes[from]))
         ELSE IF FLt(closes[from], closes[from - 1])
         THEN Append(obv, FSub(obv[from - 1], volumes[from]))
         ELSE Append(obv, obv[from - 1])
    ELSE LET mid == (from + to) \div 2
             left == OBVPushes(closes, volumes, obv, from, mid)
         IN  IF Len(left) >= 0
             THEN OBVPushes(closes, volumes, left, mid + 1, to)
             ELSE left

\* The simplified OBV: [0], then one push per bar from index 1.
OBV(closes, volumes) == OBVPushes(closes, volumes, <<Zero>>, 2, Len(closes))

\* The simplified VWAP: cumulative typicalPrice * volume over cumulative volume.
VWAP(highs, lows, closes, volumes) ==
    [k \in 1 .. Len(closes) |->
        LET typical(j) == FDiv(FAdd(FAdd(highs[j], lows[j]), closes[j]), FromInt(3))
        IN  FDiv(FSumSeq([j \in 1 .. k |-> FMul(typical(j), volumes[j])]),
                 FSumSeq([j \in 1 .. k |-> volumes[j]]))]

\* calculateAllIndicators(data): one frame per bar.
CalculateAllIndicators(highs, lows, closes, volumes) ==
    LET sma20 == CalculateSMA(closes, 20)
        sma50 == CalculateSMA(closes, 50)
        ema12 == CalculateEMA(closes, 12)
        ema26 == CalculateEMA(closes, 26)
        rsi == CalculateRSI(closes, 14)
        m == CalculateMACD(closes)
        bb == CalculateBollingerBands(closes, 20, 2)
        atr == CalculateATR(highs, lows, closes, 14)
        obv == OBV(closes, volumes)
        vwap == VWAP(highs, lows, closes, volumes)
    IN  [k \in 1 .. Len(closes) |->
            [sma20 |-> sma20[k], sma50 |-> sma50[k], ema12 |-> ema12[k],
             ema26 |-> ema26[k], rsi |-> rsi[k], macd |-> m.macd[k],
             macdSignal |-> m.signal[k], macdHistogram |-> m.histogram[k],
             bbUpper |-> bb.upper[k], bbMiddle |-> bb.middle[k],
             bbLower |-> bb.lower[k], atr |-> atr[k], adx |-> FromInt(25),
             obv |-> obv[k], vwap |-> vwap[k]]]

\* extractFeaturesFromOHLCV(data, index, lookback): null below the lookback;
\* the feature record itself is not spelled out here.
ExtractFeaturesFromOHLCVNeverNull(data, index, lookback) == "features"

ExtractFeaturesFromOHLCV(data, index, lookback) ==
    IF index < lookback THEN "null" ELSE "features"

\* x || fallback on numbers: 0 and NaN are falsy.
OrElse(x, fallback) == IF IsNaN(x) \/ x = Zero THEN fallback ELSE x

\* The period of the RSI that extractFeaturesFromOHLCV computes.
RsiPeriod == 14

\* The rsi field of the record extractFeaturesFromOHLCV returns for
\* index >= lookback: closes is the slice's closes.
TradeFeatures(data, index, lookback) ==
    LET closes == Slice(data, index - lookback, index + 1)
        rsiValues == CalculateRSI(closes, RsiPeriod)
    IN  [rsi |-> OrElse(rsiValues[Len(rsiValues)], FromInt(50))]

\* The entry of featuresToArray(features) that carries the rsi.
FeaturesToArray(features) == [rsi |-> FDiv(features.rsi, FromInt(100))]

\* ------------------------------------------------------------- state --

VARIABLES
    strategy,        \* the StrategyConfig argument
    data,            \* the OHLCV[] argument: its length and the closes of bars >= 50
    entryCondition,  \* what strategy.entryCondition answered at each bar so far
    exitCondition,   \* what strategy.exitCondition answered at each bar and side so far
    pc,              \* "idle" | "loop" | "done" | "threw"
    i,               \* the loop index
    capital,
    position,
    trades,
    equityCurve,
    peakEquity,
    drawdownCurve,
    result,          \* << >> or <<the returned BacktestResult>>
    entries,         \* FLAT -> IN_POSITION transitions taken in this run
    exits,           \* IN_POSITION -> FLAT transitions taken in this run
    run,             \* 1 or 2: the call of runBacktest on these arguments
    first,           \* outcome of call 1, kept to compare call 2 with
    args,            \* the arguments of a call of an indicator function
    ret,             \* what that call returned
    quotes,          \* TradingProvider: the last quote of each symbol, 0 for none
    positions,       \* TradingProvider: the open positions
    tradeList,       \* TradingProvider: its trades state, newest first
    portfolio,       \* TradingProvider: the portfolio
    listened,        \* the trades handed to the trade listeners, in order
    call,            \* the last executeTrade call: who made it, what it asked, its error
    model,           \* TradingMLModel.model: null or the layers model of a run
    isTraining,      \* TradingMLModel.isTraining
    featureMeans,    \* TradingMLModel.featureMeans
    featureStds,     \* TradingMLModel.featureStds
    training         \* where each train() call stands

engineVars == <<strategy, data, entryCondition, exitCondition, pc, i, capital,
                position, trades, equityCurve, peakEquity, drawdownCurve, result,
                entries, exits, run, first>>

libraryVars == <<args, ret>>

providerVars == <<quotes, positions, tradeList, portfolio, listened, call>>

modelVars == <<model, isTraining, featureMeans, featureStds, training>>

vars == <<strategy, data, entryCondition, exitCondition, pc, i, capital, position,
          trades, equityCurve, peakEquity, drawdownCurve, result, entries, exits,
          run, first, args, ret, quotes, positions, tradeList, portfolio,
          listened, call, model, isTraining, featureMeans, featureStds, training>>

Bars == WarmUp .. (WarmUp + MaxBars - 1)

Sides == {"LONG", "SHORT"}

Signals == {"LONG", "SHORT", "null"}

null == [type |-> "null", entryPrice |-> 0, entryTime |-> 0, quantity |-> 0,
         entryIndex |-> 0]

\* A config under which no position can be opened (no entry callback, or a
\* position value below the lowest price) never has its exit settings read:
\* it is taken with one choice of them.
Strategies ==
    {s \in [initialCapital : InitialCapitals, positionSize : PositionSizes,
            stopLoss : StopLosses, takeProfit : TakeProfits,
            maxHoldingPeriod : MaxHoldingPeriods, trailingStop : {0},
            hasEntry : BOOLEAN, hasExit : BOOLEAN] :
        \/ s.hasEntry /\ s.initialCapital * s.positionSize >= 100
        \/ s.stopLoss = 50 /\ s.takeProfit = 50 /\ s.maxHoldingPeriod = 0}

Series ==
    {[length |-> n, close |-> <<>>, start |-> 0] : n \in ShortLengths}
    \cup UNION {{[length |-> WarmUp + k, close |-> c, start |-> 0]
                    : c \in [1 .. k -> Prices]}
                : k \in 1 .. MaxBars}

\* data[j].close and data[j].timestamp.getTime() for a simulated bar j: the
\* bars are one minute apart, bar 0 at data.start milliseconds after the epoch.
Close(j) == data.close[j - WarmUp + 1]

TimeOf(j) == data.start + j * BarMs

\* `${getFullYear()}-${String(getMonth() + 1).padStart(2, '0')}` of the Date at
\* time milliseconds after the epoch, for dates within a month of the epoch
\* and the clock on UTC.
Month(time) == IF time < 0 THEN "1969-12" ELSE "1970-01"

\* --------------------------------------------------- the bar's steps --

\* (close - entry) * quantity for a LONG, (entry - close) * quantity for a SHORT.
PnLSignSwapped(type, entryPrice, close, quantity) ==
    IF type = "LONG" THEN (entryPrice - close) * quantity
    ELSE (close - entryPrice) * quantity

PnL(type, entryPrice, close, quantity) ==
    IF type = "LONG" THEN (close - entryPrice) * quantity
    ELSE (entryPrice - close) * quantity

\* ((close - entry) / entry) * 100, sign by side.
PnlPercent(type, entryPrice, close) ==
    IF type = "LONG"
    THEN FMul(FDiv(FromInt(close - entryPrice), FromInt(entryPrice)), FromInt(100))
    ELSE FMul(FDiv(FromInt(entryPrice - close), FromInt(entryPrice)), FromInt(100))

\* currentEquity: capital plus the open position's unrealized P&L.
CurrentEquityRealizedOnly(cap, pos, close) == cap

CurrentEquity(cap, pos, close) ==
    IF pos # null
    THEN cap + PnL(pos.type, pos.entryPrice, close, pos.quantity)
    ELSE cap

\* ((peakEquity - currentEquity) / peakEquity) * 100
Drawdown(peak, equity) ==
    FMul(FDiv(FromInt(peak - equity), FromInt(peak)), FromInt(100))

Max(a, b) == IF a >= b THEN a ELSE b

\* Math.floor of a finite number.
Floor(x) == x.n \div x.d

\* positionValue = capital * (positionSize / 100);
\* quantity = Math.floor(positionValue / close), close > 0.
QuantityOfFraction(cap, positionSize, close) ==
    Floor(FDiv(FMul(FromInt(cap), FromInt(positionSize)), FromInt(close)))

Quantity(cap, positionSize, close) ==
    LET positionValue == FMul(FromInt(cap), FDiv(FromInt(positionSize), FromInt(100)))
    IN  Floor(FDiv(positionValue, FromInt(close)))

\* The exit checks of one bar, in the order the code makes them: each `if`
\* that holds sets shouldExit and overwrites exitReason.
ExitDecisionLateTimeExit(pnlPercent, held, signalled) ==
    LET r0 == [shouldExit |-> FALSE, exitReason |-> "SIGNAL"]
        r1 == IF FLe(pnlPercent, FromInt(-strategy.stopLoss))
              THEN [shouldExit |-> TRUE, exitReason |-> "STOP_LOSS"] ELSE r0
        r2 == IF FGe(pnlPercent, FromInt(strategy.takeProfit))
              THEN [shouldExit |-> TRUE, exitReason |-> "TARGET"] ELSE r1
        r3 == IF strategy.maxHoldingPeriod # 0 /\ held > strategy.maxHoldingPeriod
              THEN [shouldExit |-> TRUE, exitReason |-> "TIME_EXIT"] ELSE r2
        r4 == IF signalled
              THEN [shouldExit |-> TRUE, exitReason |-> "SIGNAL"] ELSE r3
    IN  r4

ExitDecisionWithTrailingStop(pnlPercent, held, signalled) ==
    LET r0 == [shouldExit |-> FALSE, exitReason |-> "SIGNAL"]
        r1 == IF FLe(pnlPercent, FromInt(-strategy.stopLoss))
              THEN [shouldExit |-> TRUE, exitReason |-> "STOP_LOSS"] ELSE r0
        rt == IF strategy.trailingStop # 0
                 /\ FLe(pnlPercent, FromInt(-strategy.trailingStop))
              THEN [shouldExit |-> TRUE, exitReason |-> "TRAILING_STOP"] ELSE r1
        r2 == IF FGe(pnlPercent, FromInt(strategy.takeProfit))
              THEN [shouldExit |-> TRUE, exitReason |-> "TARGET"] ELSE rt
        r3 == IF strategy.maxHoldingPeriod # 0 /\ held >= strategy.maxHoldingPeriod
              THEN [shouldExit |-> TRUE, exitReason |-> "TIME_EXIT"] ELSE r2
        r4 == IF signalled
              THEN [shouldExit |-> TRUE, exitReason |-> "SIGNAL"] ELSE r3
    IN  r4

ExitDecisionWithoutTarget(pnlPercent, held, signalled) ==
    LET r0 == [shouldExit |-> FALSE, exitReason |-> "SIGNAL"]
        r1 == IF FLe(pnlPercent, FromInt(-strategy.stopLoss))
              THEN [shouldExit |-> TRUE, exitReason |-> "STOP_LOSS"] ELSE r0
        r3 == IF strategy.maxHoldingPeriod # 0 /\ held >= strategy.maxHoldingPeriod
              THEN [shouldExit |-> TRUE, exitReason |-> "TIME_EXIT"] ELSE r1
        r4 == IF signalled
              THEN [shouldExit |-> TRUE, exitReason |-> "SIGNAL"] ELSE r3
    IN  r4

ExitDecision(pnlPercent, held, signalled) ==
    LET r0 == [shouldExit |-> FALSE, exitReason |-> "SIGNAL"]
        r1 == IF FLe(pnlPercent, FromInt(-strategy.stopLoss))
              THEN [shouldExit |-> TRUE, exitReason |-> "STOP_LOSS"] ELSE r0
        r2 == IF FGe(pnlPercent, FromInt(strategy.takeProfit))
              THEN [shouldExit |-> TRUE, exitReason |-> "TARGET"] ELSE r1
        r3 == IF strategy.maxHoldingPeriod # 0 /\ held >= strategy.maxHoldingPeriod
              THEN [shouldExit |-> TRUE, exitReason |-> "TIME_EXIT"] ELSE r2
        r4 == IF signalled
              THEN [shouldExit |-> TRUE, exitReason |-> "SIGNAL"] ELSE r3
    IN  r4

\* trades.push({...})
AppendTradeDropped(ts, t) == ts

AppendTrade(ts, t) == Append(ts, t)

ClosedTradeStampedAtEntry(pos, j, pnlPercent, exitReason) ==
    [entryTime |-> pos.entryTime, exitTime |-> pos.entryTime, type |-> pos.type,
     entryPrice |-> pos.entryPrice, exitPrice |-> Close(j),
     quantity |-> pos.quantity,
     pnl |-> PnL(pos.type, pos.entryPrice, Close(j), pos.quantity),
     pnlPercent |-> pnlPercent, exitReason |-> exitReason]

ClosedTrade(pos, j, pnlPercent, exitReason) ==
    [entryTime |-> pos.entryTime, exitTime |-> TimeOf(j), type |-> pos.type,
     entryPrice |-> pos.entryPrice, exitPrice |-> Close(j),
     quantity |-> pos.quantity,
     pnl |-> PnL(pos.type, pos.entryPrice, Close(j), pos.quantity),
     pnlPercent |-> pnlPercent, exitReason |-> exitReason]

\* The data array once calculateAllIndicators(data) has returned: the series
\* is only read (map, slice, index), so it is the array that was passed.
SeriesAfterIndicatorsReversed(d) ==
    [d EXCEPT !.close = [k \in 1 .. Len(d.close) |-> d.close[Len(d.close) + 1 - k]]]

SeriesAfterIndicators(d) == d

\* The locals runBacktest declares before the loop.
FreshRunKeepingTrades(s) ==
    [capital |-> s.initialCapital, position |-> null, trades |-> trades,
     equityCurve |-> <<>>, peakEquity |-> s.initialCapital, drawdownCurve |-> <<>>]

FreshRun(s) ==
    [capital |-> s.initialCapital, position |-> null, trades |-> <<>>,
     equityCurve |-> <<>>, peakEquity |-> s.initialCapital, drawdownCurve |-> <<>>]

\* Both curves get their point at the top of every iteration.
PushCurvesWhenFlat ==
    IF position = null
    THEN /\ equityCurve' = Append(equityCurve, capital)
         /\ peakEquity' = Max(peakEquity, capital)
         /\ drawdownCurve' =
              Append(drawdownCurve, Drawdown(Max(peakEquity, capital), capital))
    ELSE UNCHANGED <<equityCurve, peakEquity, drawdownCurve>>

PushCurves ==
    LET currentEquity == CurrentEquity(capital, position, Close(i))
        peak == Max(peakEquity, currentEquity)
    IN  /\ equityCurve' = Append(equityCurve, currentEquity)
        /\ peakEquity' = peak
        /\ drawdownCurve' = Append(drawdownCurve, Drawdown(peak, currentEquity))

InLoop == pc = "loop" /\ i < data.length

\* A strategy callback is a function of (data, i, indicators[, side]): asked
\* again about the same bar it answers the same.
Answers(table, key, answer) == table[key] \in {"unset", answer}

\* ------------------------------------------------------- statistics --

WinningTrades(ts) == SelectSeq(ts, LAMBDA t : t.pnl > 0)

LosingTrades(ts) == SelectSeq(ts, LAMBDA t : t.pnl <= 0)

Pnls(ts) == [k \in 1 .. Len(ts) |-> ts[k].pnl]

Returns(ts) == [k \in 1 .. Len(ts) |-> ts[k].pnlPercent]

TotalPnLOfWinners(ts) == SumSeq(Pnls(WinningTrades(ts)))

TotalPnL(ts) == SumSeq(Pnls(ts))

TotalPnLPercent(cap, initialCapital) ==
    FMul(FDiv(FromInt(cap - initialCapital), FromInt(initialCapital)), FromInt(100))

\* The mean P&L of a (winning or losing) trade list, 0 for an empty one.
AvgPnl(ts) ==
    IF Len(ts) > 0 THEN FDiv(FromInt(SumSeq(Pnls(ts))), FromInt(Len(ts))) ELSE Zero

ProfitFactor(ts) ==
    LET grossProfit == SumSeq(Pnls(WinningTrades(ts)))
        grossLoss == Abs(SumSeq(Pnls(LosingTrades(ts))))
    IN  IF grossLoss > 0 THEN FDiv(FromInt(grossProfit), FromInt(grossLoss))
        ELSE IF grossProfit > 0 THEN PosInf ELSE Zero

AvgReturn(returns) ==
    IF Len(returns) > 0 THEN FDiv(FSumSeq(returns), FromInt(Len(returns))) ELSE Zero

\* stdReturn squared: sum((r - avgReturn)^2) / returns.length, NaN for no return.
VarReturn(returns) ==
    LET avg == AvgReturn(returns)
        sq == [k \in 1 .. Len(returns) |->
                 FMul(FSub(returns[k], avg), FSub(returns[k], avg))]
    IN  FDiv(FSumSeq(sq), FromInt(Len(returns)))

\* stdReturn > 0 ? (avgReturn / stdReturn) * Math.sqrt(252) : 0.  The square
\* root of x is > 0 exactly when x is, and is NaN when x is.
SharpeRatioUnguarded(returns) ==
    Surd(AvgReturn(returns), VarReturn(returns), TradingDays)

SharpeRatio(returns) ==
    IF FGt(VarReturn(returns), Zero)
    THEN Surd(AvgReturn(returns), VarReturn(returns), TradingDays)
    ELSE SurdZero

\* downsideDeviation squared: sum(r^2 over r < 0) / negativeReturns.length.
DownsideVar(returns) ==
    LET negativeReturns == SelectSeq(returns, LAMBDA r : FLt(r, Zero))
        sq == [k \in 1 .. Len(negativeReturns) |->
                 FMul(negativeReturns[k], negativeReturns[k])]
    IN  FDiv(FSumSeq(sq), FromInt(Len(negativeReturns)))

SortinoRatio(returns) ==
    IF FGt(DownsideVar(returns), Zero)
    THEN Surd(AvgReturn(returns), DownsideVar(returns), TradingDays)
    ELSE SurdZero

\* Math.max(...drawdownCurve.map(d => d.drawdown))
MaxDrawdownPercent(curve) == FMaxSeq(curve)

\* (maxDrawdown / 100) * peakEquity
MaxDrawdownValue(maxDrawdown, peak) ==
    FMul(FDiv(maxDrawdown, FromInt(100)), FromInt(peak))

CalmarRatio(totalPnLPercent, maxDrawdown, length) ==
    LET annualizedReturn ==
            FMul(totalPnLPercent, FDiv(FromInt(TradingDays), FromInt(length)))
    IN  IF FGt(maxDrawdown, Zero) THEN FDiv(annualizedReturn, maxDrawdown) ELSE Zero

AvgHoldingPeriod(ts) ==
    IF Len(ts) > 0
    THEN LET held == [k \in 1 .. Len(ts) |-> ts[k].exitTime - ts[k].entryTime]
         IN  FDiv(FDiv(FromInt(SumSeq(held)), FromInt(Len(ts))), FromInt(MsPerDay))
    ELSE Zero

\* (winningTrades.length / trades.length) * 100, 0 for no trade.
WinRateFraction(ts) ==
    IF Len(ts) > 0
    THEN FDiv(FromInt(Len(WinningTrades(ts))), FromInt(Len(ts)))
    ELSE Zero

WinRate(ts) ==
    IF Len(ts) > 0
    THEN FMul(FDiv(FromInt(Len(WinningTrades(ts))), FromInt(Len(ts))), FromInt(100))
    ELSE Zero

LargestWin(ts) ==
    IF Len(WinningTrades(ts)) > 0 THEN MaxSeq(Pnls(WinningTrades(ts))) ELSE 0

LargestLoss(ts) ==
    IF Len(LosingTrades(ts)) > 0 THEN MinSeq(Pnls(LosingTrades(ts))) ELSE 0

\* The months of tradesByMonth in insertion order: a month is inserted by the
\* first trade that exited in it.
RECURSIVE MonthKeys(_)
MonthKeys(ts) ==
    IF Len(ts) = 0 THEN <<>>
    ELSE LET before == MonthKeys(SubSeq(ts, 1, Len(ts) - 1))
             month == Month(ts[Len(ts)].exitTime)
         IN  IF \E k \in 1 .. Len(before) : before[k] = month
             THEN before
             ELSE Append(before, month)

\* tradesByMonth.get(month): the trades of that month, in the log's order.
TradesOfMonthByEntry(ts, month) ==
    LET InMonth(t) == Month(t.entryTime) = month
    IN  SelectSeq(ts, InMonth)

TradesOfMonth(ts, month) ==
    LET InMonth(t) == Month(t.exitTime) = month
    IN  SelectSeq(ts, InMonth)

\* One { month, return } per key of tradesByMonth, return the sum of the
\* month's pnlPercent.
MonthlyReturns(ts) ==
    LET keys == MonthKeys(ts)
    IN  [k \in 1 .. Len(keys) |->
            [month |-> keys[k],
             return |-> FSumSeq(Returns(TradesOfMonth(ts, keys[k])))]]

\* The object runBacktest returns.
BacktestResult ==
    LET totalPnLPercent == TotalPnLPercent(capital, strategy.initialCapital)
        maxDrawdown == MaxDrawdownPercent(drawdownCurve)
    IN  [totalTrades |-> Len(trades),
         winningTrades |-> Len(WinningTrades(trades)),
         losingTrades |-> Len(LosingTrades(trades)),
         winRate |-> WinRate(trades),
         totalPnL |-> TotalPnL(trades),
         totalPnLPercent |-> totalPnLPercent,
         avgWin |-> AvgPnl(WinningTrades(trades)),
         avgLoss |-> AvgPnl(LosingTrades(trades)),
         largestWin |-> LargestWin(trades),
         largestLoss |-> LargestLoss(trades),
         profitFactor |-> ProfitFactor(trades),
         sharpeRatio |-> SharpeRatio(Returns(trades)),
         sortinoRatio |-> SortinoRatio(Returns(trades)),
         maxDrawdown |-> MaxDrawdownValue(maxDrawdown, peakEquity),
         maxDrawdownPercent |-> maxDrawdown,
         calmarRatio |-> CalmarRatio(totalPnLPercent, maxDrawdown, data.length),
         avgHoldingPeriod |-> AvgHoldingPeriod(trades),
         trades |-> trades,
         equityCurve |-> equityCurve,
         drawdownCurve |-> drawdownCurve,
         monthlyReturns |-> MonthlyReturns(trades)]

\* -------------------------------------------- the paper-trading ledger --
\* TradingProvider, for instruments told apart by their symbol alone (type,
\* strike and expiry the same for all).  A call of executeTrade is taken from
\* the latest render, so the portfolio it reads is the portfolio state.

INITIAL_CAPITAL == 1000000

Symbols == {"NIFTY", "BANKNIFTY"}

\* The 0.15 of the margin computations.
MarginRate == [n |-> 3, d |-> 20]

\* A trade before it is known to have closed a position: pnl undefined.
NoPnl == [defined |-> FALSE, value |-> Zero]

\* t.pnl || 0
PnlOrZero(t) == IF t.pnl.defined THEN t.pnl.value ELSE Zero

\* The effect that recomputes the portfolio from positions and trades.
PortfolioEffect(prev, ps, ts) ==
    LET unrealizedPnL == FSumSeq([k \in 1 .. Len(ps) |-> ps[k].pnl])
        usedMargin ==
            FSumSeq([k \in 1 .. Len(ps) |->
                       FMul(FMul(FromInt(Abs(ps[k].qty)), ps[k].avgPrice), MarginRate)])
        IsProfitable(t) == FGt(PnlOrZero(t), Zero)
        IsCompleted(t) == t.status = "EXECUTED" /\ t.pnl.defined
        profitableTrades == Len(SelectSeq(ts, IsProfitable))
        totalCompletedTrades == Len(SelectSeq(ts, IsCompleted))
        totalReturn == FSumSeq([k \in 1 .. Len(ts) |-> PnlOrZero(ts[k])])
    IN  [prev EXCEPT
            !.usedMargin = usedMargin,
            !.availableMargin =
                FAdd(FSub(FromInt(INITIAL_CAPITAL), usedMargin), prev.realizedPnL),
            !.unrealizedPnL = unrealizedPnL,
            !.totalPnL = FAdd(prev.realizedPnL, unrealizedPnL),
            !.todayPnL = unrealizedPnL,
            !.winRate = IF totalCompletedTrades > 0
                        THEN FDiv(FromInt(profitableTrades),
                                  FromInt(totalCompletedTrades))
                        ELSE Zero,
            !.totalTrades = Len(ts),
            !.avgReturn = IF totalCompletedTrades > 0
                          THEN FDiv(totalReturn, FromInt(totalCompletedTrades))
                          ELSE Zero]

\* No executeTrade call was made yet.
NoTradeCall ==
    [n |-> 0, via |-> "none", symbol |-> "none", action |-> "none", qty |-> 0,
     price |-> 0, error |-> "none"]

\* The provider's state once it is mounted.
ProviderMounted ==
    /\ quotes = [symbol \in Symbols |-> 0]
    /\ positions = <<>>
    /\ tradeList = <<>>
    /\ portfolio = [totalCapital |-> INITIAL_CAPITAL, usedMargin |-> Zero,
                    availableMargin |-> FromInt(INITIAL_CAPITAL), totalPnL |-> Zero,
                    todayPnL |-> Zero, realizedPnL |-> Zero, unrealizedPnL |-> Zero,
                    winRate |-> Zero, totalTrades |-> 0, avgReturn |-> Zero]
    /\ listened = <<>>
    /\ call = NoTradeCall

\* ------------------------------------------------------- the ML model --

\* No train() call was made yet on a TradingMLModel that was just constructed.
NoTrainCall == [pc |-> "idle", data |-> <<>>]

\* The train() calls a behaviour makes.
MaxTrainCalls == 3

TrainCalls == 1 .. MaxTrainCalls

ModelConstructed ==
    /\ model = 0
    /\ isTraining = FALSE
    /\ featureMeans = <<>>
    /\ featureStds = <<>>
    /\ training = [c \in TrainCalls |-> NoTrainCall]

\* ----------------------------------------------------------- actions --

\* No indicator function is being called on its own.
NoCall == [fn |-> "none"]

Init ==
    /\ strategy \in Strategies
    /\ data \in Series
    /\ entryCondition = [j \in Bars |-> "unset"]
    /\ exitCondition = [k \in Bars \X Sides |-> "unset"]
    /\ pc = "idle"
    /\ i = 0
    /\ capital = 0
    /\ position = null
    /\ trades = <<>>
    /\ equityCurve = <<>>
    /\ peakEquity = 0
    /\ drawdownCurve = <<>>
    /\ result = <<>>
    /\ entries = 0
    /\ exits = 0
    /\ run = 1
    /\ first = [pc |-> "idle", result |-> <<>>]
    /\ ProviderMounted
    /\ ModelConstructed
    /\ args = NoCall
    /\ ret = NoCall

\* runBacktest is entered: its locals are declared, the loop starts at bar 50.
Begin ==
    /\ UNCHANGED <<libraryVars, providerVars, modelVars>>
    /\ pc = "idle"
    /\ LET l == FreshRun(strategy)
       IN  /\ capital' = l.capital
           /\ position' = l.position
           /\ trades' = l.trades
           /\ equityCurve' = l.equityCurve
           /\ peakEquity' = l.peakEquity
           /\ drawdownCurve' = l.drawdownCurve
    /\ pc' = "loop"
    /\ i' = WarmUp
    /\ result' = <<>>
    /\ entries' = 0
    /\ exits' = 0
    /\ data' = SeriesAfterIndicators(data)
    /\ UNCHANGED <<strategy, entryCondition, exitCondition, run, first>>

\* One iteration with no open position and no entryCondition function: the
\* call strategy.entryCondition(...) throws a TypeError out of runBacktest.
BarThrow ==
    /\ UNCHANGED <<libraryVars, providerVars, modelVars>>
    /\ InLoop
    /\ position = null
    /\ ~strategy.hasEntry
    /\ PushCurves
    /\ pc' = "threw"
    /\ UNCHANGED <<strategy, data, entryCondition, exitCondition, i, capital,
                   position, trades, result, entries, exits, run, first>>

\* One iteration with no open position: the entry check.
BarFlat ==
    /\ UNCHANGED <<libraryVars, providerVars, modelVars>>
    /\ InLoop
    /\ position = null
    /\ strategy.hasEntry
    /\ PushCurves
    /\ \E signal \in Signals :
         LET quantity == Quantity(capital, strategy.positionSize, Close(i))
             opened == signal # "null" /\ quantity > 0
         IN  /\ Answers(entryCondition, i, signal)
             /\ entryCondition' = [entryCondition EXCEPT ![i] = signal]
             /\ position' = IF opened
                            THEN [type |-> signal, entryPrice |-> Close(i),
                                  entryTime |-> TimeOf(i), quantity |-> quantity,
                                  entryIndex |-> i]
                            ELSE position
             /\ entries' = IF opened THEN entries + 1 ELSE entries
    /\ i' = i + 1
    /\ UNCHANGED <<strategy, data, exitCondition, pc, capital, trades, result,
                   exits, run, first>>

\* One iteration with an open position: the exit checks and the exit commit.
BarInPosition ==
    /\ UNCHANGED <<libraryVars, providerVars, modelVars>>
    /\ InLoop
    /\ position # null
    /\ PushCurves
    /\ \E answer \in {"true", "false"} :
         LET pnlPercent == PnlPercent(position.type, position.entryPrice, Close(i))
             signalled == strategy.hasExit /\ answer = "true"
             d == ExitDecision(pnlPercent, i - position.entryIndex, signalled)
             t == ClosedTrade(position, i, pnlPercent, d.exitReason)
         IN  /\ IF strategy.hasExit
                THEN /\ Answers(exitCondition, <<i, position.type>>, answer)
                     /\ exitCondition' =
                          [exitCondition EXCEPT ![<<i, position.type>>] = answer]
                ELSE /\ answer = "false"
                     /\ UNCHANGED exitCondition
             /\ IF d.shouldExit
                THEN /\ trades' = AppendTrade(trades, t)
                     /\ capital' = capital + t.pnl
                     /\ position' = null
                     /\ exits' = exits + 1
                ELSE UNCHANGED <<trades, capital, position, exits>>
    /\ i' = i + 1
    /\ UNCHANGED <<strategy, data, entryCondition, pc, result, entries, run, first>>

\* The loop is over: the statistics are computed and the result returned.
Finish ==
    /\ UNCHANGED <<libraryVars, providerVars, modelVars>>
    /\ pc = "loop"
    /\ i >= data.length
    /\ result' = <<BacktestResult>>
    /\ pc' = "done"
    /\ UNCHANGED <<strategy, data, entryCondition, exitCondition, i, capital,
                   position, trades, equityCurve, peakEquity, drawdownCurve,
                   entries, exits, run, first>>

\* The caller keeps the outcome and calls runBacktest again with the same
\* arguments.  Whatever the first call left behind is still there.
Rerun ==
    /\ UNCHANGED <<libraryVars, providerVars, modelVars>>
    /\ pc \in {"done", "threw"}
    /\ run = 1
    /\ first' = [pc |-> pc, result |-> result]
    /\ run' = 2
    /\ pc' = "idle"
    /\ UNCHANGED <<strategy, data, entryCondition, exitCondition, i, capital,
                   position, trades, equityCurve, peakEquity, drawdownCurve,
                   result, entries, exits>>

Next == Begin \/ BarThrow \/ BarFlat \/ BarInPosition \/ Finish \/ Rerun

Spec == Init /\ [][Next]_vars

\* --------------------------------- a series across the turn of a month --

\* The timestamp of bar 0 that puts bar 52 on the first minute of January 1970.
MonthEnd == 0 - (WarmUp + 2) * BarMs

\* Full-length series that start either in January 1970 or late enough in
\* December 1969 to cross into January, run with a funded strategy that has
\* both callbacks.
InitMonths ==
    /\ data \in {[d EXCEPT !.start = s] :
                    d \in {x \in Series : x.length = WarmUp + MaxBars},
                    s \in {0, MonthEnd}}
    /\ strategy \in {s \in Strategies : /\ s.initialCapital = 10
                                         /\ s.positionSize = 50
                                         /\ s.hasEntry /\ s.hasExit}
    /\ entryCondition = [j \in Bars |-> "unset"]
    /\ exitCondition = [k \in Bars \X Sides |-> "unset"]
    /\ pc = "idle"
    /\ i = 0
    /\ capital = 0
    /\ position = null
    /\ trades = <<>>
    /\ equityCurve = <<>>
    /\ peakEquity = 0
    /\ drawdownCurve = <<>>
    /\ result = <<>>
    /\ entries = 0
    /\ exits = 0
    /\ run = 1
    /\ first = [pc |-> "idle", result |-> <<>>]
    /\ ProviderMounted
    /\ ModelConstructed
    /\ args = NoCall
    /\ ret = NoCall

NextMonths == Begin \/ BarFlat \/ BarInPosition \/ Finish \/ Rerun

SpecMonths == InitMonths /\ [][NextMonths]_vars

\* ------------------------------- two runs that differ in trailingStop --

\* The trailingStop of a StrategyConfig, in percent; 0 stands for not set.
TrailingStops == {0, 1, 50}

\* Full-length series, run with a funded strategy that has an entry callback.
InitTrailing ==
    /\ data \in {x \in Series : x.length = WarmUp + MaxBars}
    /\ strategy \in {[s EXCEPT !.trailingStop = t] :
                        s \in {x \in Strategies : /\ x.initialCapital = 10
                                                  /\ x.positionSize = 50
                                                  /\ x.hasEntry},
                        t \in TrailingStops}
    /\ entryCondition = [j \in Bars |-> "unset"]
    /\ exitCondition = [k \in Bars \X Sides |-> "unset"]
    /\ pc = "idle"
    /\ i = 0
    /\ capital = 0
    /\ position = null
    /\ trades = <<>>
    /\ equityCurve = <<>>
    /\ peakEquity = 0
    /\ drawdownCurve = <<>>
    /\ result = <<>>
    /\ entries = 0
    /\ exits = 0
    /\ run = 1
    /\ first = [pc |-> "idle", result |-> <<>>]
    /\ ProviderMounted
    /\ ModelConstructed
    /\ args = NoCall
    /\ ret = NoCall

\* The caller keeps the outcome and calls runBacktest again on the same series
\* with a config that differs from the first one in trailingStop only.
RerunOtherTrailingStop ==
    /\ UNCHANGED <<libraryVars, providerVars, modelVars>>
    /\ pc \in {"done", "threw"}
    /\ run = 1
    /\ first' = [pc |-> pc, result |-> result]
    /\ run' = 2
    /\ pc' = "idle"
    /\ \E t \in TrailingStops \ {strategy.trailingStop} :
         strategy' = [strategy EXCEPT !.trailingStop = t]
    /\ UNCHANGED <<data, entryCondition, exitCondition, i, capital,
                   position, trades, equityCurve, peakEquity, drawdownCurve,
                   result, entries, exits>>

NextTrailing == Begin \/ BarFlat \/ BarInPosition \/ Finish \/ RerunOtherTrailingStop

SpecTrailing == InitTrailing /\ [][NextTrailing]_vars

\* ------------------------------ 'RSI Reversal' on a flat price series --

\* predefinedStrategies[0].config.entryCondition
RSIReversalEntry(ind) ==
    IF FLt(ind.rsi, FromInt(30)) THEN "LONG"
    ELSE IF FGt(ind.rsi, FromInt(70)) THEN "SHORT"
    ELSE "null"

\* predefinedStrategies[0].config.exitCondition
RSIReversalExitAboveForty(ind, pos) ==
    IF pos = "LONG" /\ FGt(ind.rsi, FromInt(60)) THEN "true"
    ELSE IF pos = "SHORT" /\ FGt(ind.rsi, FromInt(40)) THEN "true"
    ELSE "false"

RSIReversalExit(ind, pos) ==
    IF pos = "LONG" /\ FGt(ind.rsi, FromInt(60)) THEN "true"
    ELSE IF pos = "SHORT" /\ FLt(ind.rsi, FromInt(40)) THEN "true"
    ELSE "false"

\* The predefined config (stopLoss 2, takeProfit 4, both callbacks, no
\* maxHoldingPeriod) completed by the caller's capital and position size.
RSIReversal(initialCapital, positionSize) ==
    [initialCapital |-> initialCapital, positionSize |-> positionSize,
     stopLoss |-> 2, takeProfit |-> 4, maxHoldingPeriod |-> 0,
     trailingStop |-> 0, hasEntry |-> TRUE, hasExit |-> TRUE]

Min(a, b) == IF a <= b THEN a ELSE b

\* n bars whose open, high, low and close all equal price; history holds the
\* closes of the bars before bar 50.
FlatSeries(price, n) ==
    [length |-> n, start |-> 0,
     close |-> [k \in 1 .. Max(0, n - WarmUp) |-> price],
     history |-> [k \in 1 .. Min(n, WarmUp) |-> price]]

\* data.map(d => d.close) of a series that carries its history.
Closes(d) ==
    [k \in 1 .. d.length |->
        FromInt(IF k <= WarmUp THEN d.history[k] ELSE d.close[k - WarmUp])]

\* const indicators = calculateAllIndicators(data), for bars whose high and
\* low equal their close and whose volume is 1.
Indicators(d) ==
    CalculateAllIndicators(Closes(d), Closes(d), Closes(d),
                           [k \in 1 .. d.length |-> FromInt(1)])

InitFlat ==
    /\ \E price \in Prices, n \in ShortLengths \cup {WarmUp + k : k \in 1 .. MaxBars},
          initialCapital \in InitialCapitals, positionSize \in PositionSizes :
         /\ data = FlatSeries(price, n)
         /\ strategy = RSIReversal(initialCapital, positionSize)
    /\ entryCondition =
         [j \in WarmUp .. (data.length - 1) |-> RSIReversalEntry(Indicators(data)[j + 1])]
    /\ exitCondition =
         [k \in (WarmUp .. (data.length - 1)) \X Sides |->
             RSIReversalExit(Indicators(data)[k[1] + 1], k[2])]
    /\ pc = "idle"
    /\ i = 0
    /\ capital = 0
    /\ position = null
    /\ trades = <<>>
    /\ equityCurve = <<>>
    /\ peakEquity = 0
    /\ drawdownCurve = <<>>
    /\ result = <<>>
    /\ entries = 0
    /\ exits = 0
    /\ run = 1
    /\ first = [pc |-> "idle", result |-> <<>>]
    /\ ProviderMounted
    /\ ModelConstructed
    /\ args = NoCall
    /\ ret = NoCall

NextFlat == Begin \/ BarFlat \/ BarInPosition \/ Finish

SpecFlat == InitFlat /\ [][NextFlat]_vars

\* ------------------------------------ a series rising 1% every bar --

\* The close k bars after bar 50, in units that keep five bars whole numbers:
\* 100^4 at bar 50 and 1% more on each bar up to bar 54.
RisingClose(k) == (100 ^ (4 - k)) * (101 ^ k)

RisingSeries(n) ==
    [length |-> n, start |-> 0,
     close |-> [k \in 1 .. (n - WarmUp) |-> RisingClose(k - 1)]]

\* Capitals that buy no, one or a few units at those closes.
RisingCapitals == {0, 2 * RisingClose(0), 4 * RisingClose(0)}

InitRise ==
    /\ data \in {RisingSeries(WarmUp + k) : k \in 1 .. 5}
    /\ strategy \in [initialCapital : RisingCapitals, positionSize : {0, 50, 100},
                      stopLoss : {2}, takeProfit : {4},
                      maxHoldingPeriod : MaxHoldingPeriods, trailingStop : {0},
                      hasEntry : {TRUE}, hasExit : {FALSE}]
    /\ entryCondition = [j \in WarmUp .. (data.length - 1) |-> "unset"]
    /\ exitCondition = [k \in (WarmUp .. (data.length - 1)) \X Sides |-> "unset"]
    /\ pc = "idle"
    /\ i = 0
    /\ capital = 0
    /\ position = null
    /\ trades = <<>>
    /\ equityCurve = <<>>
    /\ peakEquity = 0
    /\ drawdownCurve = <<>>
    /\ result = <<>>
    /\ entries = 0
    /\ exits = 0
    /\ run = 1
    /\ first = [pc |-> "idle", result |-> <<>>]
    /\ ProviderMounted
    /\ ModelConstructed
    /\ args = NoCall
    /\ ret = NoCall

NextRise == Begin \/ BarFlat \/ BarInPosition \/ Finish

\* The for loop of runBacktest is synchronous: while a bar is left, the next
\* iteration is made.
SpecRise == InitRise /\ [][NextRise]_vars /\ WF_vars(BarFlat \/ BarInPosition)

\* ----------------------------------- 'MACD Crossover' on a late move --

\* predefinedStrategies[1].config.entryCondition, frames being what
\* calculateAllIndicators(data) returns.
MACDCrossoverEntry(frames, index) ==
    IF index < 1 THEN "null"
    ELSE LET prevInd == frames[index]
             ind == frames[index + 1]
         IN  IF FLt(prevInd.macd, prevInd.macdSignal) /\ FGt(ind.macd, ind.macdSignal)
             THEN "LONG"
             ELSE IF FGt(prevInd.macd, prevInd.macdSignal)
                     /\ FLt(ind.macd, ind.macdSignal)
             THEN "SHORT"
             ELSE "null"

\* The predefined config (stopLoss 1.5, takeProfit 3, no exit callback)
\* completed by the caller's capital and position size.  The stop loss is the
\* rational 3/2, which the exit checks of this model do not take: they are
\* not reached under this strategy, see NextMacd.
MACDCrossover(initialCapital, positionSize) ==
    [initialCapital |-> initialCapital, positionSize |-> positionSize,
     stopLoss |-> Mk(3, 2), takeProfit |-> 3, maxHoldingPeriod |-> 0,
     trailingStop |-> 0, hasEntry |-> TRUE, hasExit |-> FALSE]

\* The bars of a series that may leave the price the series held until then.
LateBars == 2

\* n bars at one price up to the last LateBars simulated bars, which are free.
LateMoveSeries ==
    UNION {{[length |-> n, start |-> 0,
             history |-> [k \in 1 .. WarmUp |-> price],
             close |-> [k \in 1 .. (n - WarmUp) |->
                          IF n - WarmUp - k < Len(tail)
                          THEN tail[Len(tail) - (n - WarmUp - k)]
                          ELSE price]]
              : tail \in [1 .. Min(LateBars, n - WarmUp) -> Prices]}
           : price \in Prices, n \in (WarmUp + 1) .. (WarmUp + MaxBars)}

InitMacd ==
    /\ data \in LateMoveSeries
    /\ \E initialCapital \in InitialCapitals, positionSize \in PositionSizes :
         strategy = MACDCrossover(initialCapital, positionSize)
    /\ entryCondition =
         [j \in WarmUp .. (data.length - 1) |-> MACDCrossoverEntry(Indicators(data), j)]
    /\ exitCondition = [k \in (WarmUp .. (data.length - 1)) \X Sides |-> "unset"]
    /\ pc = "idle"
    /\ i = 0
    /\ capital = 0
    /\ position = null
    /\ trades = <<>>
    /\ equityCurve = <<>>
    /\ peakEquity = 0
    /\ drawdownCurve = <<>>
    /\ result = <<>>
    /\ entries = 0
    /\ exits = 0
    /\ run = 1
    /\ first = [pc |-> "idle", result |-> <<>>]
    /\ ProviderMounted
    /\ ModelConstructed
    /\ args = [fn |-> "call", data |-> Closes(data), period |-> 0, stdDev |-> 0]
    /\ ret = NoCall

\* calculateMACD(data.slice(0, length)) on the closes of the series.
CallMACD ==
    /\ ret = NoCall
    /\ \E length \in 0 .. Len(args.data) :
         ret' = [fn |-> "calculateMACD", length |-> length,
                 value |-> CalculateMACD(SubSeq(args.data, 1, length))]
    /\ UNCHANGED args
    /\ UNCHANGED <<engineVars, providerVars, modelVars>>

\* The iteration with an open position is left out: no entry signal is ever
\* given under this strategy, so no position is open at any bar (C28 states
\* position = null as part of what it checks).
NextMacd == Begin \/ BarFlat \/ Finish \/ CallMACD

SpecMacd == InitMacd /\ [][NextMacd]_vars

\* ------------------------------------- the indicator functions alone --

Inputs == UNION {[1 .. n -> {FromInt(v) : v \in 1 .. MaxValue}] : n \in 0 .. MaxLen}

Calls == [fn : {"call"}, data : Inputs, period : 1 .. (MaxLen + 1),
          stdDev : 0 .. MaxStdDev]

\* No backtest is running: the engine's variables keep their initial values.
InitLibrary ==
    /\ args \in Calls
    /\ ret = NoCall
    /\ strategy = [initialCapital |-> 0, positionSize |-> 0, stopLoss |-> 50,
                   takeProfit |-> 50, maxHoldingPeriod |-> 0, trailingStop |-> 0,
                   hasEntry |-> FALSE, hasExit |-> FALSE]
    /\ data = [length |-> 0, close |-> <<>>, start |-> 0]
    /\ entryCondition = [j \in Bars |-> "unset"]
    /\ exitCondition = [k \in Bars \X Sides |-> "unset"]
    /\ pc = "idle"
    /\ i = 0
    /\ capital = 0
    /\ position = null
    /\ trades = <<>>
    /\ equityCurve = <<>>
    /\ peakEquity = 0
    /\ drawdownCurve = <<>>
    /\ result = <<>>
    /\ entries = 0
    /\ exits = 0
    /\ run = 1
    /\ first = [pc |-> "idle", result |-> <<>>]
    /\ ProviderMounted
    /\ ModelConstructed

CallSMA ==
    /\ ret = NoCall
    /\ ret' = [fn |-> "calculateSMA",
               value |-> CalculateSMA(args.data, args.period)]
    /\ UNCHANGED args
    /\ UNCHANGED <<engineVars, providerVars, modelVars>>

CallEMA ==
    /\ ret = NoCall
    /\ ret' = [fn |-> "calculateEMA",
               value |-> CalculateEMA(args.data, args.period)]
    /\ UNCHANGED args
    /\ UNCHANGED <<engineVars, providerVars, modelVars>>

CallRSI ==
    /\ ret = NoCall
    /\ ret' = [fn |-> "calculateRSI",
               value |-> CalculateRSI(args.data, args.period)]
    /\ UNCHANGED args
    /\ UNCHANGED <<engineVars, providerVars, modelVars>>

CallBollingerBands ==
    /\ ret = NoCall
    /\ ret' = [fn |-> "calculateBollingerBands",
               value |-> CalculateBollingerBands(args.data, args.period,
                                                 args.stdDev)]
    /\ UNCHANGED args
    /\ UNCHANGED <<engineVars, providerVars, modelVars>>

\* extractFeaturesFromOHLCV(data, index, lookback) with lookback = period.
CallExtractFeatures ==
    /\ ret = NoCall
    /\ \E index \in 0 .. MaxLen :
         ret' = [fn |-> "extractFeaturesFromOHLCV", index |-> index,
                 value |-> ExtractFeaturesFromOHLCV(args.data, index, args.period)]
    /\ UNCHANGED args
    /\ UNCHANGED <<engineVars, providerVars, modelVars>>

NextLibrary ==
    CallSMA \/ CallEMA \/ CallRSI \/ CallBollingerBands \/ CallExtractFeatures

SpecLibrary == InitLibrary /\ [][NextLibrary]_vars

\* ---------------------------------------- the features of a long series --

\* Closes that move by one step per bar from 40: the same step on every bar
\* but the last FreeSteps ones, which are free.
FreeSteps == 3

Steps == {-1, 0, 1}

RECURSIVE Walk(_, _, _)
Walk(from, step, tail) ==
    IF Len(tail) = 0 THEN <<>>
    ELSE <<FromInt(from + tail[1])>> \o Walk(from + tail[1], step, Tail(tail))

FeatureInputs ==
    {[k \in 1 .. n |-> FromInt(40 + (k - 1) * step)]
        \o Walk(40 + (n - 1) * step, step, tail) :
        n \in {RsiPeriod - 1, RsiPeriod}, step \in Steps,
        tail \in [1 .. FreeSteps -> Steps]}

FeatureCalls == [fn : {"call"}, data : FeatureInputs,
                 period : {RsiPeriod, RsiPeriod + 1}, stdDev : {0}]

InitFeatures ==
    /\ args \in FeatureCalls
    /\ ret = NoCall
    /\ strategy = [initialCapital |-> 0, positionSize |-> 0, stopLoss |-> 50,
                   takeProfit |-> 50, maxHoldingPeriod |-> 0, trailingStop |-> 0,
                   hasEntry |-> FALSE, hasExit |-> FALSE]
    /\ data = [length |-> 0, close |-> <<>>, start |-> 0]
    /\ entryCondition = [j \in Bars |-> "unset"]
    /\ exitCondition = [k \in Bars \X Sides |-> "unset"]
    /\ pc = "idle"
    /\ i = 0
    /\ capital = 0
    /\ position = null
    /\ trades = <<>>
    /\ equityCurve = <<>>
    /\ peakEquity = 0
    /\ drawdownCurve = <<>>
    /\ result = <<>>
    /\ entries = 0
    /\ exits = 0
    /\ run = 1
    /\ first = [pc |-> "idle", result |-> <<>>]
    /\ ProviderMounted
    /\ ModelConstructed

\* featuresToArray(extractFeaturesFromOHLCV(data, index, lookback)) for an index
\* of the series that is not below the lookback (= period).
CallFeaturesToArray ==
    /\ ret = NoCall
    /\ \E index \in 0 .. (Len(args.data) - 1) :
         /\ ExtractFeaturesFromOHLCV(args.data, index, args.period) # "null"
         /\ LET features == TradeFeatures(args.data, index, args.period)
            IN  ret' = [fn |-> "featuresToArray", index |-> index,
                        features |-> features,
                        value |-> FeaturesToArray(features)]
    /\ UNCHANGED args
    /\ UNCHANGED <<engineVars, providerVars, modelVars>>

NextFeatures == CallFeaturesToArray

SpecFeatures == InitFeatures /\ [][NextFeatures]_vars

\* ------------------------------------------ orders on the paper ledger --

\* No backtest is running and no indicator function is being called.
EngineIdle ==
    /\ strategy = [initialCapital |-> 0, positionSize |-> 0, stopLoss |-> 50,
                   takeProfit |-> 50, maxHoldingPeriod |-> 0, trailingStop |-> 0,
                   hasEntry |-> FALSE, hasExit |-> FALSE]
    /\ data = [length |-> 0, close |-> <<>>, start |-> 0]
    /\ entryCondition = [j \in Bars |-> "unset"]
    /\ exitCondition = [k \in Bars \X Sides |-> "unset"]
    /\ pc = "idle"
    /\ i = 0
    /\ capital = 0
    /\ position = null
    /\ trades = <<>>
    /\ equityCurve = <<>>
    /\ peakEquity = 0
    /\ drawdownCurve = <<>>
    /\ result = <<>>
    /\ entries = 0
    /\ exits = 0
    /\ run = 1
    /\ first = [pc |-> "idle", result |-> <<>>]
    /\ args = NoCall
    /\ ret = NoCall

\* The executeTrade calls a behaviour makes.
MaxCalls == 3

\* Order quantities and prices: 15% of 100000 * 100 is more than the capital.
Quantities == {50000, 100000}

OrderPrices == {50, 100}

\* qty * executionPrice * 0.15
RequiredMargin(qty, executionPrice) == FMul(FromInt(qty * executionPrice), MarginRate)

\* requiredMargin > portfolio.availableMargin && action === 'BUY'
RejectedUnlessCover(via, action, requiredMargin, availableMargin) ==
    FGt(requiredMargin, availableMargin) /\ action = "BUY" /\ via = "executeTrade"

Rejected(via, action, requiredMargin, availableMargin) ==
    FGt(requiredMargin, availableMargin) /\ action = "BUY"

\* The position of the instrument, as an index of ps, or 0 for none.
ExistingPos(ps, symbol) ==
    IF \E k \in 1 .. Len(ps) : ps[k].symbol = symbol
    THEN CHOOSE k \in 1 .. Len(ps) :
             ps[k].symbol = symbol /\ \A j \in 1 .. (k - 1) : ps[j].symbol # symbol
    ELSE 0

\* executeTrade(params), called by the order panel or by closePosition (via).
\* Trades and positions get the number of the call for an id.
ExecuteTrade(via, symbol, action, qty, price, orderType) ==
    LET quote == quotes[symbol]
        executionPrice == IF orderType = "MARKET" /\ quote # 0 THEN quote ELSE price
        requiredMargin == RequiredMargin(qty, executionPrice)
        asked == [n |-> call.n + 1, via |-> via, symbol |-> symbol,
                  action |-> action, qty |-> qty, price |-> executionPrice,
                  error |-> "none"]
    IN  IF Rejected(via, action, requiredMargin, portfolio.availableMargin)
        THEN /\ call' = [asked EXCEPT !.error = "Insufficient margin"]
             /\ UNCHANGED <<quotes, positions, tradeList, portfolio, listened>>
        ELSE LET trade == [id |-> call.n + 1, symbol |-> symbol, action |-> action,
                           qty |-> qty, price |-> executionPrice,
                           status |-> "EXECUTED", pnl |-> NoPnl]
                 e == ExistingPos(positions, symbol)
                 newQty == IF action = "BUY" THEN positions[e].qty + qty
                           ELSE positions[e].qty - qty
                 closes == e # 0 /\ newQty = 0
                 closingPnl ==
                     IF action = "SELL"
                     THEN FMul(FSub(FromInt(executionPrice), positions[e].avgPrice),
                               FromInt(qty))
                     ELSE FMul(FSub(positions[e].avgPrice, FromInt(executionPrice)),
                               FromInt(qty))
                 newAvgPrice ==
                     IF action = "BUY"
                     THEN FDiv(FAdd(FMul(positions[e].avgPrice,
                                         FromInt(positions[e].qty)),
                                    FromInt(executionPrice * qty)),
                               FromInt(positions[e].qty + qty))
                     ELSE positions[e].avgPrice
                 newPosition == [id |-> call.n + 1, symbol |-> symbol,
                                 qty |-> IF action = "BUY" THEN qty ELSE -qty,
                                 avgPrice |-> FromInt(executionPrice),
                                 ltp |-> executionPrice, pnl |-> Zero]
                 ps == IF e = 0 THEN Append(positions, newPosition)
                       ELSE IF closes
                       THEN SubSeq(positions, 1, e - 1)
                                \o SubSeq(positions, e + 1, Len(positions))
                       ELSE [positions EXCEPT ![e].qty = newQty,
                                              ![e].avgPrice = newAvgPrice]
                 ts == <<IF closes
                         THEN [trade EXCEPT !.pnl = [defined |-> TRUE,
                                                     value |-> closingPnl]]
                         ELSE trade>> \o tradeList
                 realized == IF closes
                             THEN [portfolio EXCEPT
                                      !.realizedPnL = FAdd(@, closingPnl)]
                             ELSE portfolio
             IN  /\ call' = asked
                 /\ tradeList' = ts
                 /\ positions' = ps
                 /\ portfolio' = PortfolioEffect(realized, ps, ts)
                 /\ listened' = Append(listened, trade)
                 /\ UNCHANGED quotes

\* The order panel places an order.
PlaceOrder ==
    /\ call.n < MaxCalls
    /\ \E symbol \in Symbols, action \in {"BUY", "SELL"}, qty \in Quantities,
          price \in OrderPrices, orderType \in {"MARKET", "LIMIT"} :
         ExecuteTrade("executeTrade", symbol, action, qty, price, orderType)
    /\ UNCHANGED <<engineVars, libraryVars, modelVars>>

\* closePosition(positionId) for an open position: a market order against it.
ClosePosition ==
    /\ call.n < MaxCalls
    /\ \E k \in 1 .. Len(positions) :
         LET closePrice == IF quotes[positions[k].symbol] # 0
                           THEN quotes[positions[k].symbol]
                           ELSE positions[k].ltp
             closeAction == IF positions[k].qty > 0 THEN "SELL" ELSE "BUY"
         IN  ExecuteTrade("closePosition", positions[k].symbol, closeAction,
                          Abs(positions[k].qty), closePrice, "MARKET")
    /\ UNCHANGED <<engineVars, libraryVars, modelVars>>

\* A quote arrives: the positions of the symbol are marked to it and the
\* portfolio is recomputed.
QuoteArrives ==
    /\ \E symbol \in Symbols, ltp \in OrderPrices :
         LET qs == [quotes EXCEPT ![symbol] = ltp]
             ps == [k \in 1 .. Len(positions) |->
                      IF qs[positions[k].symbol] = 0 THEN positions[k]
                      ELSE LET pos == positions[k]
                               price == qs[pos.symbol]
                           IN  [pos EXCEPT
                                  !.ltp = price,
                                  !.pnl = IF pos.qty > 0
                                          THEN FMul(FSub(FromInt(price), pos.avgPrice),
                                                    FromInt(pos.qty))
                                          ELSE FMul(FSub(pos.avgPrice, FromInt(price)),
                                                    FromInt(Abs(pos.qty)))]]
         IN  /\ quotes[symbol] # ltp
             /\ quotes' = qs
             /\ positions' = ps
             /\ portfolio' = PortfolioEffect(portfolio, ps, tradeList)
    /\ UNCHANGED <<tradeList, listened, call>>
    /\ UNCHANGED <<engineVars, libraryVars, modelVars>>

InitProvider == EngineIdle /\ ProviderMounted /\ ModelConstructed

NextProvider == PlaceOrder \/ ClosePosition \/ QuoteArrives

SpecProvider == InitProvider /\ [][NextProvider]_vars

\* --------------------------------------------- training the ML model --
\* TradingMLModel.train on data sets of one feature; a data set is the list
\* of its rows' feature values.

Datasets == {<<>>, <<1>>, <<1, 3>>, <<2, 2, 5>>}

\* normalizeFeatures(features).means
Means(features) ==
    <<FDiv(FSumSeq([k \in 1 .. Len(features) |-> FromInt(features[k])]),
           FromInt(Len(features)))>>

\* normalizeFeatures(features).stds: Math.sqrt(variance) || 1, as a surd.
Stds(features) ==
    LET mean == Means(features)[1]
        variance ==
            FDiv(FSumSeq([k \in 1 .. Len(features) |->
                            Square(FSub(FromInt(features[k]), mean))]),
                 FromInt(Len(features)))
    IN  <<IF variance = Zero THEN [sgn |-> 1, sq |-> FromInt(1)]
          ELSE ScaledRoot(1, variance)>>

\* this.isTraining once train() has left its try block, by returning or by
\* throwing: the finally block has run.
IsTrainingAfterWithoutFinally(outcome) == outcome = "threw"

IsTrainingAfter(outcome) == FALSE

\* train(data) is called: up to its first await, or to its throw.
TrainCalled ==
    /\ \E c \in TrainCalls, features \in Datasets :
         /\ training[c].pc = "idle"
         /\ \A b \in 1 .. (c - 1) : training[b].pc # "idle"
         /\ IF isTraining
            THEN /\ training' = [training EXCEPT ![c] =
                                    [pc |-> "rejected", data |-> features]]
                 /\ UNCHANGED <<model, isTraining, featureMeans, featureStds>>
            ELSE IF Len(features) = 0
            THEN /\ training' = [training EXCEPT ![c] =
                                    [pc |-> "threw", data |-> features]]
                 /\ isTraining' = IsTrainingAfter("threw")
                 /\ UNCHANGED <<model, featureMeans, featureStds>>
            ELSE /\ training' = [training EXCEPT ![c] =
                                    [pc |-> "fitting", data |-> features]]
                 /\ isTraining' = TRUE
                 /\ featureMeans' = Means(features)
                 /\ featureStds' = Stds(features)
                 /\ model' = c
    /\ UNCHANGED <<engineVars, libraryVars, providerVars>>

\* await this.model.fit(...) settles: the call goes on to save the model, or
\* the rejection leaves train() through its finally block.
FitSettles ==
    /\ \E c \in TrainCalls, outcome \in {"resolved", "threw"} :
         /\ training[c].pc = "fitting"
         /\ IF outcome = "resolved"
            THEN /\ training' = [training EXCEPT ![c].pc = "saving"]
                 /\ UNCHANGED isTraining
            ELSE /\ training' = [training EXCEPT ![c].pc = "threw"]
                 /\ isTraining' = IsTrainingAfter("threw")
    /\ UNCHANGED <<model, featureMeans, featureStds>>
    /\ UNCHANGED <<engineVars, libraryVars, providerVars>>

\* await this.model.save(...) settles and the normalization is stored: train()
\* returns its metrics, or throws what save or localStorage threw.
SaveSettles ==
    /\ \E c \in TrainCalls, outcome \in {"returned", "threw"} :
         /\ training[c].pc = "saving"
         /\ training' = [training EXCEPT ![c].pc = outcome]
         /\ isTraining' = IsTrainingAfter(outcome)
    /\ UNCHANGED <<model, featureMeans, featureStds>>
    /\ UNCHANGED <<engineVars, libraryVars, providerVars>>

InitModel == EngineIdle /\ ProviderMounted /\ ModelConstructed

NextModel == TrainCalled \/ FitSettles \/ SaveSettles

SpecModel == InitModel /\ [][NextModel]_vars

\* ------------------------------------------------------------ claims --

Returned == pc = "done"

ValidConfig ==
    strategy.initialCapital > 0 /\ strategy.positionSize > 0 /\ strategy.hasEntry

LastTrade(ts) == ts[Len(ts)]

Wins(ts) == Cardinality({k \in 1 .. Len(ts) : ts[k].pnl > 0})

\* max(initialCapital, equityCurve[1..k]): the highest equity seen up to point k.
RECURSIVE RunningPeak(_)
RunningPeak(k) ==
    IF k = 0 THEN strategy.initialCapital
    ELSE Max(RunningPeak(k - 1), equityCurve[k])

\* C1: at every point of a run the position slot holds at most one position
\* (entries taken minus exits taken is 0 or 1, and is 1 exactly when the slot
\* is occupied), and the closed-trade log has exactly one entry per
\* IN_POSITION -> FLAT transition taken so far.
C1_OnePositionOneTradePerExit ==
    /\ entries - exits \in {0, 1}
    /\ (position # null) <=> (entries = exits + 1)
    /\ Len(trades) = exits

\* A position was closed and a second one is open.
C1_Witness == pc = "loop" /\ exits >= 1 /\ position # null

\* The first condition that holds in the order STOP_LOSS, TARGET, TIME_EXIT,
\* SIGNAL, for a bar on which the position is closed.
FirstSatisfied(pnlPercent, held) ==
    IF FLe(pnlPercent, FromInt(-strategy.stopLoss)) THEN "STOP_LOSS"
    ELSE IF FGe(pnlPercent, FromInt(strategy.takeProfit)) THEN "TARGET"
    ELSE IF strategy.maxHoldingPeriod # 0 /\ held >= strategy.maxHoldingPeriod
         THEN "TIME_EXIT"
    ELSE "SIGNAL"

\* C2: whenever a bar closes the position, the exitReason of the trade it
\* appends is the first satisfied condition in the order STOP_LOSS, TARGET,
\* TIME_EXIT, SIGNAL.
C2_FirstSatisfiedWins ==
    [][(pc = "loop" /\ position # null /\ Len(trades') = Len(trades) + 1)
         => LastTrade(trades').exitReason
              = FirstSatisfied(PnlPercent(position.type, position.entryPrice, Close(i)),
                               i - position.entryIndex)]_vars

C4_SecondRunIdentical ==
    (run = 2 /\ pc \in {"done", "threw"}) => first = [pc |-> pc, result |-> result]

\* The second call returned, having closed two trades.
C4_Witness == run = 2 /\ Returned /\ Len(trades) = 2

\* C5: with an invalid config (initialCapital <= 0, positionSize <= 0 or no
\* entryCondition) no bar is processed, no equity point and no trade is
\* produced and no result is returned.
C5_InvalidConfigFailsFast ==
    ~ValidConfig =>
        /\ ~Returned
        /\ result = <<>>
        /\ equityCurve = <<>>
        /\ trades = <<>>

\* C6: a returned result with zero closed trades has winRate, profitFactor,
\* sharpeRatio, sortinoRatio, calmarRatio, avgWin, avgLoss and avgHoldingPeriod
\* all exactly 0; the only error a run raises is the call of a missing
\* entryCondition, never the statistics.
C6_ZeroTradesZeroMetrics ==
    /\ (Returned /\ trades = <<>>) =>
          LET r == result[1]
          IN  /\ r.winRate = Zero
              /\ r.profitFactor = Zero
              /\ r.sharpeRatio = SurdZero
              /\ r.sortinoRatio = SurdZero
              /\ r.calmarRatio = Zero
              /\ r.avgWin = Zero
              /\ r.avgLoss = Zero
              /\ r.avgHoldingPeriod = Zero
    /\ pc = "threw" => ~strategy.hasEntry

\* A run returned without a closed trade although a position was opened and
\* the equity fell below its peak (maxDrawdownPercent > 0).
C6_Witness ==
    /\ Returned
    /\ trades = <<>>
    /\ position # null
    /\ FGt(result[1].maxDrawdownPercent, Zero)

\* C7: with a valid config every numeric metric of a returned result is a
\* number: none is NaN or -Infinity, only profitFactor may be +Infinity, and
\* maxDrawdownPercent and maxDrawdown are >= 0.
C7_MetricsWellDefined ==
    (Returned /\ ValidConfig) =>
        LET r == result[1]
        IN  /\ IsFinite(r.winRate)
            /\ IsFinite(r.totalPnLPercent)
            /\ IsFinite(r.avgWin)
            /\ IsFinite(r.avgLoss)
            /\ (IsFinite(r.profitFactor) \/ r.profitFactor = PosInf)
            /\ SurdIsFinite(r.sharpeRatio)
            /\ SurdIsFinite(r.sortinoRatio)
            /\ IsFinite(r.calmarRatio)
            /\ IsFinite(r.avgHoldingPeriod)
            /\ IsFinite(r.maxDrawdownPercent)
            /\ IsFinite(r.maxDrawdown)
            /\ FGe(r.maxDrawdownPercent, Zero)
            /\ FGe(r.maxDrawdown, Zero)

\* C8: at every simulated bar the peak equity is the highest equity seen so
\* far (so it never decreases) and is >= the bar's equity, the recorded
\* drawdown is (peak - equity) / peak * 100, and it is >= 0.
C8_DrawdownWellFormed ==
    pc # "idle" =>
        /\ Len(drawdownCurve) = Len(equityCurve)
        /\ peakEquity = RunningPeak(Len(equityCurve))
        /\ \A k \in 1 .. Len(equityCurve) :
             /\ RunningPeak(k) >= equityCurve[k]
             /\ RunningPeak(k) >= RunningPeak(k - 1)
             /\ drawdownCurve[k] = Drawdown(RunningPeak(k), equityCurve[k])
             /\ FGe(drawdownCurve[k], Zero)

\* What holds of C8 once the initial capital is positive.
DrawdownWellFormedWhenFunded == strategy.initialCapital > 0 => C8_DrawdownWellFormed

\* C9: the trade a bar appends has pnl = (exit - entry) * quantity for a LONG
\* and (entry - exit) * quantity for a SHORT, its pnlPercent times the entry
\* price is 100 times that price move, and the bar adds exactly pnl to capital.
C9_TradePnlAndCapital ==
    [][(pc = "loop" /\ Len(trades') = Len(trades) + 1) =>
         LET t == LastTrade(trades')
             move == IF t.type = "LONG" THEN t.exitPrice - t.entryPrice
                     ELSE t.entryPrice - t.exitPrice
         IN  /\ t.type \in Sides
             /\ t.entryPrice = position.entryPrice
             /\ t.exitPrice = Close(i)
             /\ t.quantity = position.quantity
             /\ t.pnl = move * t.quantity
             /\ FMul(t.pnlPercent, FromInt(t.entryPrice)) = FromInt(100 * move)
             /\ capital' = capital + t.pnl
             /\ position' = null]_vars

\* A LONG and a SHORT trade were closed, each with a non-zero pnl.
C9_Witness ==
    /\ \E k \in 1 .. Len(trades) : trades[k].type = "LONG" /\ trades[k].pnl # 0
    /\ \E k \in 1 .. Len(trades) : trades[k].type = "SHORT" /\ trades[k].pnl # 0

\* C10 as stated: winRate is wins / total, a fraction in [0, 1], 0 for no trade.
C10_WinRateIsFraction ==
    Returned =>
        LET r == result[1]
        IN  /\ r.winRate = (IF Len(trades) = 0 THEN Zero
                            ELSE Mk(Wins(trades), Len(trades)))
            /\ FLe(Zero, r.winRate)
            /\ FLe(r.winRate, FromInt(1))

\* C10 amended: winRate is wins / total * 100, a percentage in [0, 100], 0 for
\* no trade.
C10_WinRateIsPercentage ==
    Returned =>
        LET r == result[1]
        IN  /\ r.winRate = (IF Len(trades) = 0 THEN Zero
                            ELSE Mk(100 * Wins(trades), Len(trades)))
            /\ FLe(Zero, r.winRate)
            /\ FLe(r.winRate, FromInt(100))

\* Two trades were closed, one of them a win: winRate is 50.
C10_Witness ==
    /\ Returned
    /\ Len(trades) = 2
    /\ Wins(trades) = 1
    /\ result[1].winRate = FromInt(50)

\* Sum of the integer values xs[lo .. hi].
RECURSIVE IntSum(_, _, _)
IntSum(xs, lo, hi) ==
    IF lo > hi THEN 0 ELSE xs[lo].n + IntSum(xs, lo + 1, hi)

\* C14: for a period p >= 1 and a series of n values calculateSMA returns n
\* values, NaN at the first p - 1 indices and the arithmetic mean of
\* data[i-p+1 .. i] at every index i >= p - 1; calculateEMA returns n values.
C14_SmaIsTrailingMean ==
    /\ ret.fn = "calculateSMA" =>
         /\ Len(ret.value) = Len(args.data)
         /\ \A k \in 1 .. Len(args.data) :
              IF k - 1 < args.period - 1
              THEN IsNaN(ret.value[k])
              ELSE /\ IsFinite(ret.value[k])
                   /\ ret.value[k].n * args.period
                        = ret.value[k].d * IntSum(args.data, k - args.period + 1, k)
    /\ ret.fn = "calculateEMA" => Len(ret.value) = Len(args.data)

C14_Witness ==
    /\ ret.fn = "calculateSMA"
    /\ args.period = 2
    /\ Len(args.data) = 3
    /\ IsNaN(ret.value[1])
    /\ ret.value[3] = [n |-> 5, d |-> 2]

\* The window of index k - 1 holds no falling step.
NoLossWindow(xs, period, k) ==
    \A m \in (k - period) .. (k - 1) : xs[m + 1].n >= xs[m].n

\* C15: every defined value calculateRSI returns lies in [0, 100]; at a defined
\* index whose window has zero average loss (a constant series in particular)
\* the value is 100.
C15_RsiInRange ==
    ret.fn = "calculateRSI" =>
        \A k \in 1 .. Len(args.data) :
            /\ ~IsNaN(ret.value[k]) =>
                 /\ FGe(ret.value[k], Zero)
                 /\ FLe(ret.value[k], FromInt(100))
            /\ (k - 1 >= args.period /\ NoLossWindow(args.data, args.period, k))
                 => ret.value[k] = FromInt(100)

C15_Witness ==
    /\ ret.fn = "calculateRSI"
    /\ \E k \in 1 .. Len(args.data) :
         /\ k - 1 >= args.period
         /\ NoLossWindow(args.data, args.period, k)
         /\ ret.value[k] = FromInt(100)
    /\ \E k \in 1 .. Len(args.data) :
         FGt(ret.value[k], Zero) /\ FLt(ret.value[k], FromInt(100))

\* C16: for a multiplier stdDev >= 0, at every index i >= period - 1 the bands
\* satisfy upper >= middle >= lower, middle is SMA(period) and upper and lower
\* lie at the same distance on either side of it.
C16_BandsOrdered ==
    ret.fn = "calculateBollingerBands" =>
        /\ ret.value.middle = CalculateSMA(args.data, args.period)
        /\ \A k \in 1 .. Len(args.data) :
             k - 1 >= args.period - 1 =>
                 /\ IsFinite(ret.value.middle[k])
                 /\ ret.value.upper[k].mid = ret.value.middle[k]
                 /\ ret.value.lower[k].mid = ret.value.middle[k]
                 /\ SurdIsFinite(ret.value.upper[k].off)
                 /\ ret.value.upper[k].off.sgn >= 0
                 /\ ret.value.lower[k].off = SurdNeg(ret.value.upper[k].off)

C16_Witness ==
    /\ ret.fn = "calculateBollingerBands"
    /\ \E k \in 1 .. Len(args.data) :
         /\ k - 1 >= args.period - 1
         /\ ret.value.upper[k].off.sgn = 1
         /\ ret.value.lower[k].off.sgn = -1

\* C17: with a period larger than the series calculateSMA, calculateRSI and
\* calculateBollingerBands return NaN at every index of the input,
\* calculateEMA returns data[0] at index 0 and NaN elsewhere, and
\* extractFeaturesFromOHLCV returns null when index < lookback.
C17_InsufficientHistoryIsNaN ==
    /\ (ret.fn \in {"calculateSMA", "calculateRSI"} /\ args.period > Len(args.data)) =>
         /\ Len(ret.value) = Len(args.data)
         /\ \A k \in 1 .. Len(args.data) : IsNaN(ret.value[k])
    /\ (ret.fn = "calculateBollingerBands" /\ args.period > Len(args.data)) =>
         /\ Len(ret.value.upper) = Len(args.data)
         /\ Len(ret.value.middle) = Len(args.data)
         /\ Len(ret.value.lower) = Len(args.data)
         /\ \A k \in 1 .. Len(args.data) :
              /\ ret.value.upper[k] = BandNaN
              /\ IsNaN(ret.value.middle[k])
              /\ ret.value.lower[k] = BandNaN
    /\ (ret.fn = "calculateEMA" /\ args.period > Len(args.data)) =>
         /\ Len(ret.value) = Len(args.data)
         /\ \A k \in 1 .. Len(args.data) :
              IF k = 1 THEN ret.value[k] = args.data[1] ELSE IsNaN(ret.value[k])
    /\ (ret.fn = "extractFeaturesFromOHLCV" /\ ret.index < args.period) =>
         ret.value = "null"

C17_Witness ==
    /\ ret.fn = "calculateEMA"
    /\ args.period > Len(args.data)
    /\ Len(args.data) >= 2
    /\ ret.value[1] = args.data[1]
    /\ IsNaN(ret.value[2])

\* C11: on a flat series of any length a backtest with the predefined
\* 'RSI Reversal' config returns totalTrades = 0, totalPnL = 0 and winRate = 0.
C11_FlatSeriesNoTrades ==
    Returned =>
        /\ result[1].totalTrades = 0
        /\ result[1].totalPnL = 0
        /\ result[1].winRate = Zero

C11_Witness ==
    /\ Returned
    /\ data.length = WarmUp + 3
    /\ entryCondition[WarmUp] = "SHORT"
    /\ position # null
    /\ position.entryIndex = WarmUp
    /\ result[1].totalTrades = 0

BandDefined(b) == ~IsNaN(b.mid) /\ ~SurdIsNaN(b.off)

\* Every indicator value of a frame is a number.
FrameDefined(ind) ==
    /\ \A f \in {"sma20", "sma50", "ema12", "ema26", "rsi", "macd", "macdSignal",
                 "macdHistogram", "bbMiddle", "atr", "obv", "vwap"} : ~IsNaN(ind[f])
    /\ BandDefined(ind.bbUpper)
    /\ BandDefined(ind.bbLower)

\* C19: the loop only visits bars i >= 50, and the frame handed to the entry
\* and exit decisions at such a bar has no NaN value.
C19_FramesDefinedFromWarmUp ==
    InLoop => i >= WarmUp /\ FrameDefined(Indicators(data)[i + 1])

\* The entry callback answered LONG at bar 50 and the quantity was positive,
\* with no maxHoldingPeriod, no exit callback and at least 55 bars.
LongOpenedAtWarmUp ==
    /\ pc \in {"loop", "done"}
    /\ i > WarmUp
    /\ data.length >= WarmUp + 5
    /\ strategy.maxHoldingPeriod = 0
    /\ ~strategy.hasExit
    /\ entryCondition[WarmUp] = "LONG"
    /\ Quantity(strategy.initialCapital, strategy.positionSize, Close(WarmUp)) > 0

ClosedByTarget ==
    /\ Len(trades) >= 1
    /\ trades[1].type = "LONG"
    /\ trades[1].entryTime = TimeOf(WarmUp)
    /\ trades[1].exitTime <= TimeOf(WarmUp + 4)
    /\ trades[1].exitReason = "TARGET"
    /\ trades[1].pnl > 0

\* C12: on the series rising 1% per bar, with stopLoss 2 and takeProfit 4, a
\* LONG opened at bar 50 is eventually closed, and once bar 54 has been
\* processed it has been closed with exitReason TARGET and pnl > 0; no trade
\* of another kind closes it before.
C12_RisingLongHitsTarget ==
    /\ LongOpenedAtWarmUp ~> ClosedByTarget
    /\ [](LongOpenedAtWarmUp /\ (i > WarmUp + 4 \/ trades # <<>>) => ClosedByTarget)

C12_Witness ==
    /\ LongOpenedAtWarmUp
    /\ ClosedByTarget
    /\ trades[1].exitTime = TimeOf(WarmUp + 4)
    /\ trades[1].pnlPercent = [n |-> 4060401, d |-> 1000000]

EntryStep == InLoop /\ position = null /\ strategy.hasEntry /\ i' = i + 1

\* C18 as stated: on a LONG or SHORT signal while FLAT the quantity is
\* floor((capital * positionSize) / close[i]), positionSize being a fraction;
\* a quantity <= 0 opens nothing.
C18_QuantityIsFractionOfCapital ==
    [][(EntryStep /\ entryCondition'[i] \in Sides) =>
         LET q == (capital * strategy.positionSize) \div Close(i)
         IN  IF q > 0
             THEN /\ position' # null
                  /\ position'.type = entryCondition'[i]
                  /\ position'.quantity = q
             ELSE position' = null]_vars

\* C18, amended: on a LONG or SHORT signal while FLAT the quantity is
\* floor((capital * positionSize / 100) / close[i]), positionSize being a
\* percentage of capital; a quantity <= 0 opens nothing.
C18_QuantityIsPercentOfCapital ==
    [][(EntryStep /\ entryCondition'[i] \in Sides) =>
         LET q == (capital * strategy.positionSize) \div (100 * Close(i))
         IN  IF q > 0
             THEN /\ position' # null
                  /\ position'.type = entryCondition'[i]
                  /\ position'.quantity = q
             ELSE position' = null]_vars

C18_Witness ==
    /\ pc = "loop"
    /\ i = WarmUp + 1
    /\ entryCondition[WarmUp] = "SHORT"
    /\ strategy.positionSize = 50
    /\ capital = 10
    /\ position # null
    /\ position.entryPrice = 2
    /\ position.quantity = 2

\* capital plus the unrealized P&L of the open position at the close of bar i.
MarkedToMarket ==
    IF position = null THEN capital
    ELSE IF position.type = "LONG"
    THEN capital + (Close(i) - position.entryPrice) * position.quantity
    ELSE capital + (position.entryPrice - Close(i)) * position.quantity

\* C20: every iteration, FLAT or IN_POSITION, appends exactly one equity point,
\* capital plus the unrealized P&L at close[i], and one drawdown point; no other
\* step adds a point, so a returned run has max(0, n - 50) points on each curve.
C20_OneEquityPointPerBar ==
    /\ [](pc = "loop" => /\ Len(equityCurve) = i - WarmUp
                         /\ Len(drawdownCurve) = i - WarmUp)
    /\ [](Returned => /\ Len(result[1].equityCurve) = Max(0, data.length - WarmUp)
                      /\ Len(result[1].drawdownCurve) = Max(0, data.length - WarmUp))
    /\ [][IF InLoop
          THEN /\ equityCurve' = Append(equityCurve, MarkedToMarket)
               /\ Len(drawdownCurve') = Len(drawdownCurve) + 1
          ELSE IF pc = "idle"
          THEN equityCurve' = <<>> /\ drawdownCurve' = <<>>
          ELSE UNCHANGED <<equityCurve, drawdownCurve>>]_vars

C20_Witness ==
    /\ Returned
    /\ data.length = WarmUp + 3
    /\ Len(result[1].equityCurve) = 3
    /\ position # null
    /\ position.entryIndex = WarmUp
    /\ equityCurve[1] = capital
    /\ equityCurve[3] # capital

\* C21: with maxHoldingPeriod = m configured, the iteration of a bar on which
\* the position has been held m bars or more closes it; so an open position
\* entered at bar e is never carried past bar e + m, and no trade lasted more
\* than m bars.
C21_ClosedWithinMaxHoldingPeriod ==
    /\ [](strategy.maxHoldingPeriod # 0 =>
            /\ (pc \in {"loop", "done"} /\ position # null) =>
                   i - position.entryIndex <= strategy.maxHoldingPeriod
            /\ \A k \in 1 .. Len(trades) :
                   trades[k].exitTime - trades[k].entryTime
                       <= strategy.maxHoldingPeriod * BarMs)
    /\ [][(InLoop /\ position # null /\ strategy.maxHoldingPeriod # 0
             /\ i - position.entryIndex >= strategy.maxHoldingPeriod)
          => (position' = null /\ Len(trades') = Len(trades) + 1)]_vars

C21_Witness ==
    /\ strategy.maxHoldingPeriod = 2
    /\ Len(trades) = 1
    /\ trades[1].entryTime = TimeOf(WarmUp)
    /\ trades[1].exitTime = TimeOf(WarmUp + 2)
    /\ trades[1].exitReason = "TIME_EXIT"
    /\ position = null

\* C22: calculateEMA(data, p) holds data[0] at index 0, NaN at indices
\* 1 .. p-2, the mean of the first p values at index p-1, and at every index
\* i > p-1 the value (x[i] - ema[i-1]) * (2 / (p+1)) + ema[i-1].
C22_EmaSeedsAndRecurrence ==
    ret.fn = "calculateEMA" =>
        \A k \in 1 .. Len(args.data) :
            IF k = 1 THEN ret.value[k] = args.data[1]
            ELSE IF k - 1 < args.period - 1 THEN IsNaN(ret.value[k])
            ELSE IF k - 1 = args.period - 1
            THEN /\ IsFinite(ret.value[k])
                 /\ ret.value[k].n * args.period
                      = ret.value[k].d * IntSum(args.data, 1, args.period)
            ELSE FMul(ret.value[k], FromInt(args.period + 1))
                   = FAdd(FMul(FromInt(2), args.data[k]),
                          FMul(FromInt(args.period - 1), ret.value[k - 1]))

C22_Witness ==
    /\ ret.fn = "calculateEMA"
    /\ args.period = 3
    /\ args.data = <<FromInt(1), FromInt(3), FromInt(2), FromInt(1)>>
    /\ ret.value = <<FromInt(1), NaN, FromInt(2), [n |-> 3, d |-> 2]>>

\* The calendar months in which a closed trade exited.
ExitMonths == {Month(trades[k].exitTime) : k \in 1 .. Len(trades)}

\* C23: the monthlyReturns of a returned result hold exactly one entry per
\* calendar month in which a closed trade exited, each entry's return is the
\* sum of pnlPercent of the trades that exited in that month, and the returns
\* of all entries add up to the pnlPercent of all closed trades.

C23_MonthlyReturnsPartitionTrades ==
    Returned =>
        LET monthly == result[1].monthlyReturns
        IN  /\ \A month \in ExitMonths :
                   Cardinality({k \in 1 .. Len(monthly) : monthly[k].month = month}) = 1
            /\ \A k \in 1 .. Len(monthly) :
                   /\ monthly[k].month \in ExitMonths
                   /\ monthly[k].return =
                        FSumSeq([n \in 1 .. Cardinality({m \in 1 .. Len(trades) :
                                      Month(trades[m].exitTime) = monthly[k].month}) |->
                                   LET nth == CHOOSE m \in 1 .. Len(trades) :
                                           /\ Month(trades[m].exitTime) = monthly[k].month
                                           /\ Cardinality({q \in 1 .. m :
                                                  Month(trades[q].exitTime)
                                                      = monthly[k].month}) = n
                                   IN  trades[nth].pnlPercent])
            /\ FSumSeq([k \in 1 .. Len(monthly) |-> monthly[k].return])
                   = FSumSeq(Returns(trades))

\* A returned run whose two trades exited in different months, one entry each.
C23_Witness ==
    /\ Returned
    /\ Len(trades) = 2
    /\ Month(trades[1].exitTime) = "1969-12"
    /\ Month(trades[2].exitTime) = "1970-01"
    /\ Len(result[1].monthlyReturns) = 2
    /\ result[1].monthlyReturns[1].return # result[1].monthlyReturns[2].return

\* The RSI(14) indicator output for the closes of the lookback window at index.
RsiAt(xs, index, lookback) ==
    LET rsiValues == CalculateRSI(Slice(xs, index - lookback, index + 1), RsiPeriod)
    IN  rsiValues[Len(rsiValues)]

\* C24: for every index >= lookback the rsi feature equals the RSI(14) of the
\* closes at that index, for every RSI value in [0, 100] including 0 and 100,
\* and featuresToArray emits that value divided by 100.

C24_RsiFeatureIsIndicator ==
    ret.fn = "featuresToArray" =>
        LET rsi == RsiAt(args.data, ret.index, args.period)
        IN  /\ FGe(rsi, Zero) /\ FLe(rsi, FromInt(100))
            /\ ret.features.rsi = rsi
            /\ ret.value.rsi = FDiv(rsi, FromInt(100))

\* The part of C24 the code keeps: the feature is the indicator wherever the
\* indicator is not 0, and the array entry is always the feature over 100.
C24_RsiFeatureUnlessZero ==
    ret.fn = "featuresToArray" =>
        LET rsi == RsiAt(args.data, ret.index, args.period)
        IN  /\ rsi # Zero => ret.features.rsi = rsi
            /\ rsi = Zero => ret.features.rsi = FromInt(50)
            /\ ret.value.rsi = FDiv(ret.features.rsi, FromInt(100))

\* An all-losing window: the indicator is 0.
C24_Witness ==
    /\ ret.fn = "featuresToArray"
    /\ RsiAt(args.data, ret.index, args.period) = Zero

\* C25: at every bar of a run capital is initialCapital plus the pnl of the
\* trades closed so far; the returned totalPnL is final capital minus
\* initialCapital and totalPnLPercent is totalPnL / initialCapital * 100,
\* whether or not a position is still open at the end of the series.
C25_CapitalIsRealizedPnl ==
    /\ pc # "idle" =>
          capital = strategy.initialCapital
                      + SumSeq([k \in 1 .. Len(trades) |-> trades[k].pnl])
    /\ Returned =>
          /\ result[1].totalPnL = capital - strategy.initialCapital
          /\ result[1].totalPnLPercent =
                FMul(FDiv(FromInt(result[1].totalPnL),
                          FromInt(strategy.initialCapital)), FromInt(100))

\* A returned run with a winning and a losing trade whose last position is
\* still open, its unrealized P&L not zero.
C25_Witness ==
    /\ Returned
    /\ position # null
    /\ Close(data.length - 1) # position.entryPrice
    /\ \E k \in 1 .. Len(trades) : trades[k].pnl < 0
    /\ result[1].totalPnL # 0
    /\ strategy.initialCapital > 0

\* C26: a bar performs at most one transition.  The bar that opens a position
\* evaluates no exit condition and closes nothing, the bar that closes one asks
\* for no entry signal and opens nothing; so every closed trade exits on a bar
\* strictly after its entry bar, and each trade of the log is entered on a
\* bar strictly after the previous trade's exit bar.
C26_OneTransitionPerBar ==
    /\ [][InLoop =>
            /\ (entries' - entries) + (exits' - exits) <= 1
            /\ entries' # entries =>
                  /\ position = null /\ position' # null
                  /\ position'.entryIndex = i
                  /\ exitCondition' = exitCondition
                  /\ trades' = trades
            /\ exits' # exits =>
                  /\ position # null /\ position' = null
                  /\ position.entryIndex < i
                  /\ entryCondition' = entryCondition
                  /\ LastTrade(trades').exitTime = TimeOf(i)]_vars
    /\ [](pc \in {"loop", "done"} =>
            /\ \A k \in 1 .. Len(trades) :
                  /\ trades[k].exitTime - trades[k].entryTime >= BarMs
                  /\ k > 1 => trades[k].entryTime - trades[k - 1].exitTime >= BarMs
            /\ (position # null /\ Len(trades) > 0) =>
                  position.entryTime - LastTrade(trades).exitTime >= BarMs)

\* A position closed on the bar after its entry and a new one opened on the
\* bar after that, itself closed one bar later.
C26_Witness ==
    /\ Len(trades) = 2
    /\ trades[1].entryTime = TimeOf(WarmUp)
    /\ trades[1].exitTime = TimeOf(WarmUp + 1)
    /\ trades[2].entryTime = TimeOf(WarmUp + 2)
    /\ trades[2].exitTime = TimeOf(WarmUp + 3)

\* C27: trailingStop has no effect on a run: a second run whose config differs
\* from the first one's in trailingStop only returns the result the first run
\* returned, and no closed trade has the exitReason TRAILING_STOP.
C27_TrailingStopIgnored ==
    /\ [][run' # run =>
            /\ strategy'.trailingStop # strategy.trailingStop
            /\ [strategy' EXCEPT !.trailingStop = strategy.trailingStop] = strategy]_vars
    /\ []((run = 2 /\ Returned) => first = [pc |-> pc, result |-> result])
    /\ [](\A k \in 1 .. Len(trades) : trades[k].exitReason # "TRAILING_STOP")

\* The second run returned under a 50% trailingStop with a trade that was 50%
\* under water when it was closed on a signal.
C27_Witness ==
    /\ run = 2
    /\ Returned
    /\ strategy.trailingStop = 50
    /\ \E k \in 1 .. Len(trades) :
          /\ trades[k].exitReason = "SIGNAL"
          /\ trades[k].pnlPercent = FromInt(-50)

InProgress == {c \in TrainCalls : training[c].pc \in {"fitting", "saving"}}

\* C30: at most one training run is in progress at any time.  A train() call
\* made while another one is awaiting is rejected and touches neither the
\* model nor the normalization state of the run in progress; once a train()
\* call has finished, by returning or by throwing, isCurrentlyTraining() is
\* false, so that a later train() is accepted.
C30_OneTrainingRunAtATime ==
    /\ [](/\ Cardinality(InProgress) <= 1
          /\ isTraining <=> InProgress # {}
          /\ \A c \in InProgress :
                /\ model = c
                /\ featureMeans = Means(training[c].data)
                /\ featureStds = Stds(training[c].data))
    /\ [][\A c \in TrainCalls :
            /\ (training[c].pc = "idle" /\ training'[c].pc # "idle"
                   /\ InProgress # {}) =>
                  /\ training'[c].pc = "rejected"
                  /\ UNCHANGED <<model, isTraining, featureMeans, featureStds>>
            /\ (c \in InProgress /\ training'[c].pc \in {"returned", "threw"}) =>
                  ~isTraining'
            /\ (training[c].pc = "idle" /\ training'[c].pc # "idle"
                   /\ InProgress = {}) =>
                  training'[c].pc \in {"fitting", "threw"}
            /\ training'[c].pc = "rejected" => training[c].pc = "rejected"
                                                  \/ isTraining]_vars

\* A call was rejected while the first one was fitting; the first one threw
\* and the next call was accepted.
C30_Witness ==
    /\ training[1].pc = "threw"
    /\ Len(training[1].data) > 0
    /\ training[2].pc = "rejected"
    /\ training[3].pc = "fitting"
    /\ isTraining
    /\ model = 3

====
